---- MODULE Spec2Model ----
(***************************************************************************)
(* Friendship state machine and friendship-gated access of GroFriends++.   *)
(*                                                                         *)
(* Two deployments of the same routes are modelled over one row store:     *)
(*   - Server.js (better-sqlite3): every statement is synchronous, so the  *)
(*     part of a handler after its body has been read runs as one step.    *)
(*     Specification Spec.                                                 *)
(*   - api/[...path].js + api/db.js (sql.js): every statement is awaited,  *)
(*     so handlers of concurrent requests interleave between statements.   *)
(*     Specification SpecAsync.                                            *)
(*                                                                         *)
(* Identifiers are positive integers; 0 stands for "none" (no row, no      *)
(* token, Number(x || 0) of a missing or malformed field).  The clock is   *)
(* counted in units of the session lifetime.                               *)
(*                                                                         *)
(* The database file outlives the process (CREATE TABLE IF NOT EXISTS), so *)
(* a run starts from the rows it finds: here SeedUsers registered users,   *)
(* each holding one live session, and no friendship or message yet.        *)
(***************************************************************************)
EXTENDS Integers, Sequences, FiniteSets, TLC

(* ------------------------------ bounds -------------------------------- *)
SeedUsers == 3
MaxUsers == 4
MaxSessions == 4
MaxFriendships == 2
MaxDMs == 2
MaxDmFriendships == 3
MaxRaceRequests == 3
MaxCalls == 3
MaxTime == 2
MaxRequests == 2
AsyncUsers == 2
MaxStreams == 2
MaxItems == 2
MaxGoals == 2
MaxPosts == 2
MaxComments == 1
MaxLikes == 2
MaxPolls == 2
MaxPollDMs == 3
MaxRateCount == 3

(* ------------------------- program constants -------------------------- *)
SESSION_TTL_MS == 1
RATE_LIMIT_WINDOW_MS == 2
RATE_LIMIT_MAX_AUTH == 1
RATE_LIMIT_MAX_GENERIC == 2
ProfileLimit == 10

VARIABLES users, nextUserId, sessions, nextToken, now,
          friendships, nextFriendshipId, dms, nextDmId, resp, reqs,
          items, nextItemId, goals, nextGoalId, feed_posts, nextPostId,
          feed_likes, nextLikeId, feed_comments, nextCommentId,
          sseClients, nextStreamId, pushed, polls, dbOpen, rlStore, admitted,
          SQL, db, loaded, opened, dbPromise, created, calls

vars == <<users, nextUserId, sessions, nextToken, now,
          friendships, nextFriendshipId, dms, nextDmId, resp, reqs,
          items, nextItemId, goals, nextGoalId, feed_posts, nextPostId,
          feed_likes, nextLikeId, feed_comments, nextCommentId,
          sseClients, nextStreamId, pushed, polls, dbOpen, rlStore, admitted,
          SQL, db, loaded, opened, dbPromise, created, calls>>

store == <<users, nextUserId, sessions, nextToken,
           friendships, nextFriendshipId, dms, nextDmId>>

(* items, goals and the shared feed with its likes and comments *)
social == <<items, nextItemId, goals, nextGoalId, feed_posts, nextPostId,
            feed_likes, nextLikeId, feed_comments, nextCommentId>>

(* sseClients (the open event streams) and the last event written to them *)
sse == <<sseClients, nextStreamId, pushed>>

(* rlStore, the rate limiter's map from client address to its window, and  *)
(* admitted, the requests of each address the limiter let through in the    *)
(* window rlStore holds for it                                              *)
limiter == <<rlStore, admitted>>

(* the module state of the sql.js layers: SQL, db and loaded of            *)
(* sqlite-local (db = 0 for null), _dbPromise of api/_db.js (0 for null),  *)
(* the number of Database objects each has constructed, and the calls of   *)
(* run / all / getDB in flight                                              *)
opener == <<SQL, db, loaded, opened, dbPromise, created, calls>>

(* what else a process keeps in memory, outside the database: the polling   *)
(* streams of the serverless /events route, the serverless handle `db`      *)
(* (undefined until the first getDb()) and the rate limiter                 *)
process == <<polls, dbOpen, limiter, opener>>

(* ------------------------------ inputs -------------------------------- *)
None == 0
Emails == 1..MaxUsers
EmailInputs == {None} \cup Emails
Passwords == {1}
PasswordInputs == {None} \cup Passwords
UserIds == 1..MaxUsers
TokenInputs == 0..MaxSessions
FriendshipIdInputs == 0..MaxFriendships
UserIdInputs == 0..MaxUsers
TextInputs == {None, 1}
GoalIdInputs == 0..MaxGoals
PostIdInputs == 0..MaxPosts
ItemIdInputs == 0..MaxItems
LimitInputs == {None, MaxPosts}
DmLimitInputs == {None, MaxDMs}
OffsetInputs == {None, 1}

(* ------------------------------ helpers ------------------------------- *)
Min(a, b) == IF a <= b THEN a ELSE b
Max(a, b) == IF a <= b THEN b ELSE a

(* Mutant: every string passes. *)
isValidEmail_any(email) == TRUE

isValidEmail(email) == email \in Emails

PasswordLengthOk(password) == password \in Passwords

(* Mutant: the pair is kept in the order given. *)
canonicalPair_unsorted(a, b) == <<a, b>>

(* Mutant: the larger identifier comes first. *)
canonicalPair_reversed(a, b) == IF a < b THEN <<b, a>> ELSE <<a, b>>

canonicalPair(a, b) == IF a < b THEN <<a, b>> ELSE <<b, a>>

(* Rows of a table selected by a predicate: .get() yields the row or None.  *)
qUserByEmail(U, email) == {u \in U : u.email = email}
qUserById(U, id) == {u \in U : u.id = id}
qFindSession(S, U, token) ==
    {s \in S : s.token = token /\ \E u \in U : u.id = s.user_id}
qFindFriendship(F, a, b) == {f \in F : f.user_a = a /\ f.user_b = b}
qFriendshipById(F, fid) == {f \in F : f.id = fid}

(* The friendships table accepts a row only if UNIQUE(user_a, user_b) and   *)
(* both foreign keys hold; otherwise the INSERT throws.                     *)
FriendshipConstraintsOk(F, U, row) ==
    /\ qFindFriendship(F, row.user_a, row.user_b) = {}
    /\ qUserById(U, row.user_a) # {}
    /\ qUserById(U, row.user_b) # {}

DmConstraintsOk(U, row) ==
    /\ qUserById(U, row.sender_id) # {}
    /\ qUserById(U, row.receiver_id) # {}

(* DELETE FROM users WHERE id=? with the ON DELETE CASCADE of each table.   *)
CascadeSessions(S, uid) == {s \in S : s.user_id # uid}
(* Mutant: the cascade is keyed on the row id instead of the two parties. *)
CascadeFriendships_byRowId(F, uid) == {f \in F : f.id # uid}
CascadeFriendships(F, uid) == {f \in F : f.user_a # uid /\ f.user_b # uid}
CascadeDms(D, uid) == {d \in D : d.sender_id # uid /\ d.receiver_id # uid}
CascadeItems(I, uid) == {i \in I : i.user_id # uid}
CascadeGoals(G, uid) == {g \in G : g.user_id # uid}
(* feed_posts: user_id ON DELETE CASCADE, goal_id ON DELETE SET NULL *)
CascadePosts(P, G, uid) ==
    {IF \E g \in G : g.id = p.goal_id /\ g.user_id = uid
     THEN [p EXCEPT !.goal_id = 0] ELSE p : p \in {q \in P : q.user_id # uid}}
(* Mutant: likes on the deleted user's posts are left behind. *)
CascadeLikes_ownOnly(L, P, uid) == {l \in L : l.user_id # uid}

(* feed_likes, feed_comments: user_id and post_id ON DELETE CASCADE *)
CascadeLikes(L, P, uid) ==
    {l \in L : l.user_id # uid
                /\ ~\E p \in P : p.id = l.post_id /\ p.user_id = uid}
CascadeComments(C, P, uid) ==
    {c \in C : c.user_id # uid
                /\ ~\E p \in P : p.id = c.post_id /\ p.user_id = uid}

(* authUserFromRequest: the user of a live session, None otherwise; an      *)
(* expired session row is deleted on the way.                               *)
(* Mutant: a session is over from the instant expires_at on. *)
Expired_atExpiry(s) == s.expires_at <= now

Expired(s) == s.expires_at < now
AuthUser(token) ==
    LET rows == qFindSession(sessions, users, token)
    IN IF rows = {} THEN None
       ELSE LET row == CHOOSE s \in rows : TRUE
            IN IF Expired(row) THEN None ELSE row.user_id
(* Mutant: every expired session is deleted on the way. *)
AuthSessions_sweep(token) ==
    IF \E s \in sessions : s.token = token /\ Expired(s)
    THEN {s \in sessions : ~Expired(s)} ELSE sessions

AuthSessions(token) ==
    {s \in sessions : ~(s.token = token /\ Expired(s)
                        /\ \E u \in users : u.id = s.user_id)}

(* Mutant: the gate forgets the status. *)
AcceptedRow_anyStatus(F, u, v) ==
    LET p == IF u < v THEN <<u, v>> ELSE <<v, u>>
    IN {f \in F : f.user_a = p[1] /\ f.user_b = p[2]}

(* The gate used by GET /dm, POST /dm/send and GET /users/:id/profile.      *)
AcceptedRow(F, u, v) ==
    LET p == canonicalPair(u, v)
    IN {f \in qFindFriendship(F, p[1], p[2]) : f.status = "accepted"}
areFriends(u, v) == AcceptedRow(friendships, u, v) # {}

RECURSIVE OrderByIdDesc(_)
OrderByIdDesc(rows) ==
    IF rows = {} THEN <<>>
    ELSE LET top == CHOOSE r \in rows : \A o \in rows : o.id <= r.id
         IN <<top>> \o OrderByIdDesc(rows \ {top})

(* Mutant: the row is written whether or not it exists (an upsert). *)
qUpdateFriendshipStatus_upsert(F, fid, status) ==
    IF \E f \in F : f.id = fid
    THEN {IF f.id = fid THEN [f EXCEPT !.status = status] ELSE f : f \in F}
    ELSE F \cup {[id |-> fid, user_a |-> 1, user_b |-> 2, status |-> status,
                  requested_by |-> 1]}

(* Mutant: the rows sent by @me are left out. *)
qListDM_received(D, me, friend, limit, offset) ==
    LET rows == OrderByIdDesc({d \in D : d.sender_id = friend /\ d.receiver_id = me})
    IN IF offset >= Len(rows) THEN <<>>
       ELSE SubSeq(rows, offset + 1, IF Len(rows) <= offset + limit THEN Len(rows)
                                     ELSE offset + limit)

(* ... WHERE (sender_id=@me AND receiver_id=@friend)                        *)
(*        OR (sender_id=@friend AND receiver_id=@me)                        *)
(* ORDER BY id DESC LIMIT @limit OFFSET @offset                             *)
qListDM(D, me, friend, limit, offset) ==
    LET rows == OrderByIdDesc({d \in D : \/ d.sender_id = me /\ d.receiver_id = friend
                                         \/ d.sender_id = friend /\ d.receiver_id = me})
    IN IF offset >= Len(rows) THEN <<>>
       ELSE SubSeq(rows, offset + 1, IF Len(rows) <= offset + limit THEN Len(rows)
                                     ELSE offset + limit)

Response(op, code, body) == [op |-> op, code |-> code, body |-> body]

(* ----------------------- goals and feed queries ---------------------- *)
(* clamp(n, min, max); an absent parameter reads as 0 *)
clamp(n, min, max) == Min(Max(n, min), max)
(* LIMIT n OFFSET 0 *)
Limit(rows, n) == SubSeq(rows, 1, Min(Len(rows), n))


GoalView(g) == [id |-> g.id, title |-> g.title, is_public |-> g.is_public]
RECURSIVE MapGoals(_)
MapGoals(rows) ==
    IF rows = <<>> THEN <<>> ELSE <<GoalView(Head(rows))>> \o MapGoals(Tail(rows))

qListGoals(G, uid) == MapGoals(OrderByIdDesc({g \in G : g.user_id = uid}))

(* Mutant: the owner is not part of the WHERE clause. *)
qMakeGoalPublic_anyOwner(G, id, uid) ==
    {IF g.id = id THEN [g EXCEPT !.is_public = 1] ELSE g : g \in G}

(* UPDATE goals SET is_public=1 WHERE id=? AND user_id=? *)
qMakeGoalPublic(G, id, uid) ==
    {IF g.id = id /\ g.user_id = uid THEN [g EXCEPT !.is_public = 1] ELSE g : g \in G}

PublicGoalView(g) == [id |-> g.id, title |-> g.title]
RECURSIVE MapPublicGoals(_)
MapPublicGoals(rows) ==
    IF rows = <<>> THEN <<>>
    ELSE <<PublicGoalView(Head(rows))>> \o MapPublicGoals(Tail(rows))

(* Mutant: the is_public filter is dropped. *)
PublicGoals_all(G, uid) ==
    Limit(MapPublicGoals(OrderByIdDesc({g \in G : g.user_id = uid})), ProfileLimit)

(* SELECT id, title, target_date FROM goals WHERE user_id=? AND is_public=1 *)
(* ORDER BY id DESC LIMIT 10                                                *)
PublicGoals(G, uid) ==
    Limit(MapPublicGoals(OrderByIdDesc({g \in G : g.user_id = uid /\ g.is_public = 1})),
          ProfileLimit)

(* content: "New goal: " + g.title for a published goal, the text itself    *)
(* for a plain post                                                         *)
Content(prefix, text) == [prefix |-> prefix, text |-> text]

LikeCount(L, pid) == Cardinality({l \in L : l.post_id = pid})
CommentCount(C, pid) == Cardinality({c \in C : c.post_id = pid})
PostView(p, L, C) ==
    [id |-> p.id, user_id |-> p.user_id, content |-> p.content,
     like_count |-> LikeCount(L, p.id), comment_count |-> CommentCount(C, p.id)]

RECURSIVE MapPosts(_, _, _)
MapPosts(rows, L, C) ==
    IF rows = <<>> THEN <<>>
    ELSE <<PostView(Head(rows), L, C)>> \o MapPosts(Tail(rows), L, C)

(* qListFeed: every post joined with its author, ORDER BY f.id DESC LIMIT ? *)
qListFeed(P, U, L, C, limit) ==
    Limit(MapPosts(OrderByIdDesc({p \in P : qUserById(U, p.user_id) # {}}), L, C), limit)

qListFeedByUser(P, L, C, uid, limit) ==
    Limit(MapPosts(OrderByIdDesc({p \in P : p.user_id = uid}), L, C), limit)


(* ---------------------------------------------------------------------- *)
(* Server.js: one step per request                                        *)
(* ---------------------------------------------------------------------- *)
SeedUser(i) == [id |-> i, email |-> i, password_hash |-> 1]
SeedSession(i) == [token |-> i, user_id |-> i, expires_at |-> SESSION_TTL_MS]

(* No item, goal, post, like or comment yet; no event stream is open. *)
EmptySocial ==
    /\ items = {} /\ nextItemId = 1
    /\ goals = {} /\ nextGoalId = 1
    /\ feed_posts = {} /\ nextPostId = 1
    /\ feed_likes = {} /\ nextLikeId = 1
    /\ feed_comments = {} /\ nextCommentId = 1

NoPush == [type |-> "none", data |-> <<>>, to |-> {}]
NoEntries == [ip \in {} |-> 0]
FreshProcess ==
    /\ polls = <<>> /\ dbOpen = FALSE /\ rlStore = NoEntries /\ admitted = NoEntries
    /\ SQL = FALSE /\ db = 0 /\ loaded = FALSE /\ opened = 0
    /\ dbPromise = 0 /\ created = 0 /\ calls = <<>>
NoStreams == sseClients = {} /\ nextStreamId = 1 /\ pushed = NoPush /\ FreshProcess

Init ==
    /\ users = {SeedUser(i) : i \in 1..SeedUsers}
    /\ nextUserId = SeedUsers + 1
    /\ sessions = {SeedSession(i) : i \in 1..SeedUsers}
    /\ nextToken = SeedUsers + 1
    /\ now = 0
    /\ friendships = {}
    /\ nextFriendshipId = 1
    /\ dms = {}
    /\ nextDmId = 1
    /\ resp = Response("none", 0, <<>>)
    /\ reqs = <<>>
    /\ EmptySocial
    /\ NoStreams

Reply(op, code, body) == resp' = Response(op, code, body)

(* POST /auth/register *)
Register(email, password) ==
    /\ nextUserId <= MaxUsers
    /\ IF ~isValidEmail(email) \/ ~PasswordLengthOk(password)
       THEN Reply("register", 400, <<>>)
            /\ UNCHANGED <<users, nextUserId>>
       ELSE IF qUserByEmail(users, email) # {}
       THEN Reply("register", 409, <<>>)
            /\ UNCHANGED <<users, nextUserId>>
       ELSE /\ users' = users \cup
                  {[id |-> nextUserId, email |-> email, password_hash |-> password]}
            /\ nextUserId' = nextUserId + 1
            /\ Reply("register", 201, <<>>)
    /\ UNCHANGED <<sessions, nextToken, now, friendships, nextFriendshipId,
                   dms, nextDmId, reqs>>
    /\ UNCHANGED <<social, sse, process>>

(* POST /auth/login: the route, on the database and the response *)
LoginRoute(email, password) ==
    /\ nextToken <= MaxSessions
    /\ LET found == qUserByEmail(users, email)
       IN IF ~isValidEmail(email) \/ found = {}
             \/ (CHOOSE u \in found : TRUE).password_hash # password
          THEN Reply("login", 401, <<>>)
               /\ UNCHANGED <<sessions, nextToken>>
          ELSE LET u == CHOOSE x \in found : TRUE
               IN /\ sessions' = sessions \cup
                        {[token |-> nextToken, user_id |-> u.id,
                          expires_at |-> now + SESSION_TTL_MS]}
                  /\ nextToken' = nextToken + 1
                  /\ Reply("login", 200, <<[token |-> nextToken]>>)
    /\ UNCHANGED <<users, nextUserId, now, friendships, nextFriendshipId,
                   dms, nextDmId, reqs>>
    /\ UNCHANGED social

(* POST /auth/login *)
Login(email, password) == LoginRoute(email, password) /\ UNCHANGED <<sse, process>>

(* Mutant: every session of the token's user is deleted. *)
qDeleteSession_ofUser(S, token) ==
    {s \in S : \A x \in S : x.token = token => s.user_id # x.user_id}

(* DELETE FROM sessions WHERE token=? *)
qDeleteSession(S, token) == {s \in S : s.token # token}

(* POST /auth/logout *)
Logout(token) ==
    LET u == AuthUser(token)
    IN /\ IF u = None
          THEN sessions' = AuthSessions(token)
               /\ Reply("logout", 401, <<>>)
          ELSE sessions' = qDeleteSession(sessions, token)
               /\ Reply("logout", 200, <<>>)
       /\ UNCHANGED <<users, nextUserId, nextToken, now, friendships,
                      nextFriendshipId, dms, nextDmId, reqs>>
       /\ UNCHANGED <<social, sse, process>>

(* POST /account/delete *)
AccountDelete(token) ==
    LET u == AuthUser(token)
    IN /\ IF u = None
          THEN /\ sessions' = AuthSessions(token)
               /\ Reply("account/delete", 401, <<>>)
               /\ UNCHANGED <<users, friendships, dms>>
               /\ UNCHANGED <<items, goals, feed_posts, feed_likes, feed_comments>>
          ELSE /\ users' = {x \in users : x.id # u}
               /\ sessions' = CascadeSessions(sessions, u)
               /\ friendships' = CascadeFriendships(friendships, u)
               /\ dms' = CascadeDms(dms, u)
               /\ items' = CascadeItems(items, u)
               /\ goals' = CascadeGoals(goals, u)
               /\ feed_posts' = CascadePosts(feed_posts, goals, u)
               /\ feed_likes' = CascadeLikes(feed_likes, feed_posts, u)
               /\ feed_comments' = CascadeComments(feed_comments, feed_posts, u)
               /\ Reply("account/delete", 200, <<>>)
       /\ UNCHANGED <<nextUserId, nextToken, now, nextFriendshipId, nextDmId, reqs>>
       /\ UNCHANGED <<nextItemId, nextGoalId, nextPostId, nextLikeId, nextCommentId, sse, process>>

(* Date.now() advances between requests. *)
Tick ==
    /\ now < MaxTime
    /\ now' = now + 1
    /\ UNCHANGED <<store, resp, reqs>>
    /\ UNCHANGED <<social, sse, process>>

(* ------------------------------ friends ------------------------------- *)
(* Mutant: id is a plain rowid (largest id stored plus one), not            *)
(* AUTOINCREMENT.                                                           *)
NewFriendship_rowid(u, other) ==
    [id |-> IF friendships = {} THEN 1
            ELSE 1 + CHOOSE m \in {f.id : f \in friendships} :
                        \A f \in friendships : f.id <= m,
     user_a |-> (IF u < other THEN u ELSE other),
     user_b |-> (IF u < other THEN other ELSE u),
     status |-> "pending", requested_by |-> u]

(* Mutant: the row is inserted as already accepted. *)
NewFriendship_accepted(u, other) ==
    [id |-> nextFriendshipId, user_a |-> (IF u < other THEN u ELSE other),
     user_b |-> (IF u < other THEN other ELSE u),
     status |-> "accepted", requested_by |-> u]

NewFriendship(u, other) ==
    LET p == canonicalPair(u, other)
    IN [id |-> nextFriendshipId, user_a |-> p[1], user_b |-> p[2],
        status |-> "pending", requested_by |-> u]

(* Mutant: only the inviter's own earlier invitation counts as existing. *)
ExistingFriendship_ownOnly(F, u, other) ==
    {f \in F : f.user_a = (IF u < other THEN u ELSE other)
               /\ f.user_b = (IF u < other THEN other ELSE u)
               /\ f.requested_by = u}

(* const [a, b2] = canonicalPair(u.id, other.id); qFindFriendship.get(a, b2) *)
ExistingFriendship(F, u, other) ==
    LET p == canonicalPair(u, other) IN qFindFriendship(F, p[1], p[2])

(* Mutants: only the invited party passes; everybody passes. *)
IsParty_inviteeOnly(row, uid) ==
    (row.user_a = uid \/ row.user_b = uid) /\ uid # row.requested_by
IsParty_anyone(row, uid) == TRUE

(* row.user_a !== u.id && row.user_b !== u.id  ->  403 *)
IsParty(row, uid) == row.user_a = uid \/ row.user_b = uid

(* Mutant: the id is also bound to requested_by. *)
qUpdateFriendshipStatus_rebinds(F, fid, status) ==
    {IF f.id = fid THEN [f EXCEPT !.status = status, !.requested_by = fid] ELSE f
       : f \in F}

(* UPDATE friendships SET status=@status WHERE id=@id *)
qUpdateFriendshipStatus(F, fid, status) ==
    {IF f.id = fid THEN [f EXCEPT !.status = status] ELSE f : f \in F}

(* Mutant: only a pending row is deleted. *)
qDeleteFriendship_pendingOnly(F, fid) ==
    {f \in F : ~(f.id = fid /\ f.status = "pending")}

(* DELETE FROM friendships WHERE id=? *)
qDeleteFriendship(F, fid) == {f \in F : f.id # fid}

(* POST /friends/invite *)
InviteRoute(token, email) ==
    LET u == AuthUser(token)
        found == qUserByEmail(users, email)
    IN /\ sessions' = AuthSessions(token)
       /\ IF u = None
          THEN Reply("invite", 401, <<>>)
               /\ UNCHANGED <<friendships, nextFriendshipId>>
          ELSE IF ~isValidEmail(email)
          THEN Reply("invite", 400, <<>>)
               /\ UNCHANGED <<friendships, nextFriendshipId>>
          ELSE IF found = {}
          THEN Reply("invite", 404, <<>>)
               /\ UNCHANGED <<friendships, nextFriendshipId>>
          ELSE LET other == (CHOOSE x \in found : TRUE).id
                   row == NewFriendship(u, other)
               IN IF other = u
                  THEN Reply("invite", 400, <<>>)
                       /\ UNCHANGED <<friendships, nextFriendshipId>>
                  ELSE IF ExistingFriendship(friendships, u, other) # {}
                  THEN Reply("invite", 409, <<>>)
                       /\ UNCHANGED <<friendships, nextFriendshipId>>
                  ELSE IF ~FriendshipConstraintsOk(friendships, users, row)
                  THEN Reply("invite", 400, <<>>)
                       /\ UNCHANGED <<friendships, nextFriendshipId>>
                  ELSE /\ friendships' = friendships \cup {row}
                       /\ nextFriendshipId' = nextFriendshipId + 1
                       /\ Reply("invite", 201, <<>>)
       /\ UNCHANGED <<users, nextUserId, nextToken, now, dms, nextDmId, reqs>>
       /\ UNCHANGED social

Invite(token, email) ==
    /\ nextFriendshipId <= MaxFriendships
    /\ InviteRoute(token, email)
    /\ UNCHANGED <<sse, process>>

(* POST /friends/accept *)
Accept(token, fid) ==
    LET u == AuthUser(token)
        found == qFriendshipById(friendships, fid)
    IN /\ sessions' = AuthSessions(token)
       /\ IF u = None
          THEN Reply("accept", 401, <<>>) /\ UNCHANGED friendships
          ELSE IF fid = None
          THEN Reply("accept", 400, <<>>) /\ UNCHANGED friendships
          ELSE IF found = {}
          THEN Reply("accept", 404, <<>>) /\ UNCHANGED friendships
          ELSE IF ~IsParty(CHOOSE f \in found : TRUE, u)
          THEN Reply("accept", 403, <<>>) /\ UNCHANGED friendships
          ELSE /\ friendships' = qUpdateFriendshipStatus(friendships, fid, "accepted")
               /\ Reply("accept", 200, <<>>)
       /\ UNCHANGED <<users, nextUserId, nextToken, now, nextFriendshipId,
                      dms, nextDmId, reqs>>
       /\ UNCHANGED <<social, sse, process>>

(* POST /friends/cancel and POST /friends/remove *)
Cancel(token, fid) ==
    LET u == AuthUser(token)
        found == qFriendshipById(friendships, fid)
    IN /\ sessions' = AuthSessions(token)
       /\ IF u = None
          THEN Reply("cancel", 401, <<>>) /\ UNCHANGED friendships
          ELSE IF fid = None
          THEN Reply("cancel", 400, <<>>) /\ UNCHANGED friendships
          ELSE IF found = {}
          THEN Reply("cancel", 404, <<>>) /\ UNCHANGED friendships
          ELSE IF ~IsParty(CHOOSE f \in found : TRUE, u)
          THEN Reply("cancel", 403, <<>>) /\ UNCHANGED friendships
          ELSE /\ friendships' = qDeleteFriendship(friendships, fid)
               /\ Reply("cancel", 200, <<>>)
       /\ UNCHANGED <<users, nextUserId, nextToken, now, nextFriendshipId,
                      dms, nextDmId, reqs>>
       /\ UNCHANGED <<social, sse, process>>

(* qListFriendsRaw: rows touching @me joined with the other party's user   *)
(* row, ORDER BY f.id DESC                                                  *)
FriendIdOf(f, me) == IF f.user_a = me THEN f.user_b ELSE f.user_a

(* Mutant: only the rows stored under @me as user_a are selected. *)
qListFriendsRaw_ownSide(F, U, me) ==
    OrderByIdDesc({[id |-> f.id, user_a |-> f.user_a, user_b |-> f.user_b,
                    status |-> f.status, requested_by |-> f.requested_by,
                    friend_id |-> f.user_b] : f \in {g \in F : g.user_a = me}})

qListFriendsRaw(F, U, me) ==
    OrderByIdDesc({[id |-> f.id, user_a |-> f.user_a, user_b |-> f.user_b,
                    status |-> f.status, requested_by |-> f.requested_by,
                    friend_id |-> FriendIdOf(f, me)]
                   : f \in {g \in F : /\ (g.user_a = me \/ g.user_b = me)
                                       /\ qUserById(U, FriendIdOf(g, me)) # {}}})

(* Mutant: every pending row can be accepted by whoever lists it. *)
FriendRow_pendingOnly(r, me) ==
    [id |-> r.id, friend_id |-> r.friend_id, status |-> r.status,
     requested_by |-> r.requested_by, can_accept |-> (r.status = "pending")]

FriendRow(r, me) ==
    [id |-> r.id, friend_id |-> r.friend_id, status |-> r.status,
     requested_by |-> r.requested_by,
     can_accept |-> (r.status = "pending" /\ r.requested_by # me)]

RECURSIVE MapFriends(_, _)
MapFriends(rows, me) ==
    IF rows = <<>> THEN <<>>
    ELSE <<FriendRow(Head(rows), me)>> \o MapFriends(Tail(rows), me)

(* Mutant: the two pending lists are told apart the wrong way round. *)
splitFriends_swapped(rows, meId) ==
    LET IsAccepted(f) == f.status = "accepted"
        IsIncoming(f) == f.status # "accepted" /\ f.status = "pending"
                         /\ f.requested_by = meId
        IsOutgoing(f) == f.status # "accepted" /\ f.status = "pending"
                         /\ f.requested_by # meId
    IN [incoming |-> SelectSeq(rows, IsIncoming),
        outgoing |-> SelectSeq(rows, IsOutgoing),
        accepted |-> SelectSeq(rows, IsAccepted)]

(* splitFriends(rows, meId) of the page script: the if / else-if chain     *)
(* over the rows of GET /friends                                            *)
splitFriends(rows, meId) ==
    LET IsAccepted(f) == f.status = "accepted"
        IsIncoming(f) == f.status # "accepted" /\ f.status = "pending"
                         /\ f.requested_by # meId
        IsOutgoing(f) == f.status # "accepted" /\ f.status = "pending"
                         /\ f.requested_by = meId
    IN [incoming |-> SelectSeq(rows, IsIncoming),
        outgoing |-> SelectSeq(rows, IsOutgoing),
        accepted |-> SelectSeq(rows, IsAccepted)]

(* GET /friends *)
Friends(token) ==
    LET u == AuthUser(token)
    IN /\ sessions' = AuthSessions(token)
       /\ IF u = None
          THEN Reply("friends", 401, <<>>)
          ELSE Reply("friends", 200, MapFriends(qListFriendsRaw(friendships, users, u), u))
       /\ UNCHANGED <<users, nextUserId, nextToken, now, friendships,
                      nextFriendshipId, dms, nextDmId, reqs>>
       /\ UNCHANGED <<social, sse, process>>

(* -------------------------------- DMs --------------------------------- *)
DmRow(m, me) == [id |-> m.id, mine |-> (m.sender_id = me), sender_id |-> m.sender_id]

RECURSIVE MapDm(_, _)
MapDm(rows, me) ==
    IF rows = <<>> THEN <<>> ELSE <<DmRow(Head(rows), me)>> \o MapDm(Tail(rows), me)

(* GET /dm?friend_id=&limit=&offset= *)
DmList(token, friend_id, limit, offset) ==
    LET u == AuthUser(token)
    IN /\ sessions' = AuthSessions(token)
       /\ IF u = None
          THEN Reply("dm", 401, <<>>)
          ELSE IF friend_id = None
          THEN Reply("dm", 400, <<>>)
          ELSE IF AcceptedRow(friendships, u, friend_id) = {}
          THEN Reply("dm", 403, <<>>)
          ELSE Reply("dm", 200,
                     MapDm(qListDM(dms, u, friend_id, clamp(limit, 1, 100),
                                   clamp(offset, 0, 1000000)), u))
       /\ UNCHANGED <<users, nextUserId, nextToken, now, friendships,
                      nextFriendshipId, dms, nextDmId, reqs>>
       /\ UNCHANGED <<social, sse, process>>

(* Mutant: the event goes to every open stream. *)
StreamsOf_any(uid) == {c.id : c \in sseClients}

(* sseSendTo(userId, type, data): the streams registered under userId *)
StreamsOf(uid) == {c.id : c \in {x \in sseClients : x.user_id = uid}}
(* sseBroadcast(type, data): every open stream *)
AllStreams == {c.id : c \in sseClients}
Push(type, data, to) == pushed' = [type |-> type, data |-> data, to |-> to]

(* POST /dm/send *)
DmSend(token, friend_id, text) ==
    LET u == AuthUser(token)
        row == [id |-> nextDmId, sender_id |-> u, receiver_id |-> friend_id]
    IN /\ nextDmId <= MaxDMs
       /\ sessions' = AuthSessions(token)
       /\ IF u = None
          THEN Reply("dm/send", 401, <<>>)
               /\ UNCHANGED <<dms, nextDmId, pushed>>
          ELSE IF friend_id = None \/ text = None
          THEN Reply("dm/send", 400, <<>>)
               /\ UNCHANGED <<dms, nextDmId, pushed>>
          ELSE IF AcceptedRow(friendships, u, friend_id) = {}
          THEN Reply("dm/send", 403, <<>>)
               /\ UNCHANGED <<dms, nextDmId, pushed>>
          ELSE IF ~DmConstraintsOk(users, row)
          THEN Reply("dm/send", 400, <<>>)
               /\ UNCHANGED <<dms, nextDmId, pushed>>
          ELSE /\ dms' = dms \cup {row}
               /\ nextDmId' = nextDmId + 1
               /\ Push("dm:new", <<[sender_id |-> u, text |-> text]>>,
                       StreamsOf(friend_id) \cup StreamsOf(u))
               /\ Reply("dm/send", 201, <<>>)
       /\ UNCHANGED <<users, nextUserId, nextToken, now, friendships,
                      nextFriendshipId, reqs>>
       /\ UNCHANGED <<social, sseClients, nextStreamId, process>>

(* ------------------------- friend public profile ---------------------- *)
(* GET /users/:id/profile *)
Profile(token, id) ==
    LET u == AuthUser(token)
    IN /\ sessions' = AuthSessions(token)
       /\ IF u = None
          THEN Reply("profile", 401, <<>>)
          ELSE IF id = None
          THEN Reply("profile", 400, <<>>)
          ELSE IF AcceptedRow(friendships, u, id) = {}
          THEN Reply("profile", 403, <<>>)
          ELSE IF qUserById(users, id) = {}
          THEN Reply("profile", 404, <<>>)
          ELSE Reply("profile", 200,
                     <<[id |-> id,
                        goals |-> PublicGoals(goals, id),
                        feed |-> qListFeedByUser(feed_posts, feed_likes,
                                                 feed_comments, id, ProfileLimit)]>>)
       /\ UNCHANGED <<users, nextUserId, nextToken, now, friendships,
                      nextFriendshipId, dms, nextDmId, reqs>>
       /\ UNCHANGED <<social, sse, process>>

Next ==
    \/ \E e \in EmailInputs, p \in PasswordInputs : Register(e, p)
    \/ \E t \in TokenInputs : AccountDelete(t)
    \/ \E t \in TokenInputs, e \in EmailInputs : Invite(t, e)
    \/ \E t \in TokenInputs, f \in FriendshipIdInputs : Accept(t, f)
    \/ \E t \in TokenInputs, f \in FriendshipIdInputs : Cancel(t, f)
    \/ \E t \in TokenInputs, v \in UserIdInputs : Profile(t, v)
    \/ \E t \in TokenInputs : Friends(t)

Spec == Init /\ [][Next]_vars

(* ---------------------------------------------------------------------- *)
(* Server.js: sessions and event streams                                  *)
(* ---------------------------------------------------------------------- *)
(* GET /auth/me *)
MeRoute(token) ==
    LET u == AuthUser(token)
    IN /\ sessions' = AuthSessions(token)
       /\ IF u = None
          THEN Reply("me", 401, <<>>)
          ELSE Reply("me", 200, <<[id |-> u]>>)
       /\ UNCHANGED <<users, nextUserId, nextToken, now, friendships,
                      nextFriendshipId, dms, nextDmId, reqs>>
       /\ UNCHANGED social

Me(token) == MeRoute(token) /\ UNCHANGED <<sse, process>>

(* GET /events?token=: the session is looked up by the route itself; a     *)
(* live one opens a stream, greeted with a ping, under the user's id.       *)
Events(token) ==
    LET rows == qFindSession(sessions, users, token)
    IN /\ nextStreamId <= MaxStreams
       /\ IF rows = {} \/ Expired(CHOOSE r \in rows : TRUE)
          THEN /\ Reply("events", 401, <<>>)
               /\ UNCHANGED sse
          ELSE /\ Reply("events", 200, <<>>)
               /\ Push("ping", <<>>, {nextStreamId})
               /\ sseClients' = sseClients \cup
                     {[id |-> nextStreamId, user_id |-> (CHOOSE r \in rows : TRUE).user_id]}
               /\ nextStreamId' = nextStreamId + 1
       /\ UNCHANGED <<store, now, reqs, social, process>>

(* req.on("close", () => sseRemove(userId, res)) *)
EventsClose(id) ==
    /\ \E c \in sseClients : c.id = id
    /\ sseClients' = {c \in sseClients : c.id # id}
    /\ UNCHANGED <<store, now, resp, reqs, social, nextStreamId, pushed, process>>

(* Process start over the existing database file: expired sessions are     *)
(* swept once and no stream is open.                                        *)
Start ==
    /\ sessions' = {s \in sessions : ~Expired(s)}
    /\ sseClients' = {}
    /\ UNCHANGED <<users, nextUserId, nextToken, now, friendships,
                   nextFriendshipId, dms, nextDmId, resp, reqs>>
    /\ UNCHANGED <<social, nextStreamId, pushed, process>>

NextSessions ==
    \/ \E e \in EmailInputs, p \in PasswordInputs : Login(e, p)
    \/ \E t \in TokenInputs : Logout(t)
    \/ \E t \in TokenInputs : Me(t)
    \/ \E t \in TokenInputs : Events(t)
    \/ \E c \in 1..MaxStreams : EventsClose(c)
    \/ \E t \in TokenInputs : AccountDelete(t)
    \/ Tick
    \/ Start

SpecSessions == Init /\ [][NextSessions]_vars

(* ---------------------------------------------------------------------- *)
(* Server.js: items, goals and the shared feed                            *)
(* ---------------------------------------------------------------------- *)
outsideSocial == <<users, nextUserId, nextToken, now, friendships,
                   nextFriendshipId, dms, nextDmId, reqs>>

(* A throw outside any try/catch rejects the handler's promise: no response *)
(* is written, and depending on the runtime the process goes on or exits    *)
(* and is started again.                                                    *)
Uncaught(op) ==
    /\ Reply(op, 0, <<>>)
    /\ \/ UNCHANGED <<sessions, sseClients>>
       \/ sessions' = {s \in sessions : ~Expired(s)} /\ sseClients' = {}

(* POST /items: the route, on the database and the response *)
ItemCreateRoute(token, title) ==
    LET u == AuthUser(token)
    IN /\ nextItemId <= MaxItems
       /\ sessions' = AuthSessions(token)
       /\ IF u = None
          THEN Reply("items", 401, <<>>) /\ UNCHANGED <<items, nextItemId>>
          ELSE IF title = None
          THEN Reply("items", 400, <<>>) /\ UNCHANGED <<items, nextItemId>>
          ELSE /\ items' = items \cup {[id |-> nextItemId, user_id |-> u, done |-> 0]}
               /\ nextItemId' = nextItemId + 1
               /\ Reply("items", 201, <<>>)
       /\ UNCHANGED outsideSocial
       /\ UNCHANGED <<goals, nextGoalId, feed_posts, nextPostId,
                      feed_likes, nextLikeId, feed_comments, nextCommentId>>

(* POST /items *)
ItemCreate(token, title) == ItemCreateRoute(token, title) /\ UNCHANGED <<sse, process>>

ItemView(i) == [id |-> i.id, done |-> i.done]

(* ORDER BY done ASC, id DESC *)
RECURSIVE OrderByDoneAscIdDesc(_)
OrderByDoneAscIdDesc(rows) ==
    IF rows = {} THEN <<>>
    ELSE LET top == CHOOSE r \in rows :
                      \A o \in rows : r.done < o.done \/ (r.done = o.done /\ o.id <= r.id)
         IN <<ItemView(top)>> \o OrderByDoneAscIdDesc(rows \ {top})

qListItems(I, uid) == OrderByDoneAscIdDesc({i \in I : i.user_id = uid})

(* Mutant: the owner is not part of the WHERE clause. *)
qToggleItem_anyOwner(I, id, uid) ==
    {IF i.id = id THEN [i EXCEPT !.done = 1 - @] ELSE i : i \in I}

(* UPDATE items SET done = CASE WHEN done=1 THEN 0 ELSE 1 END              *)
(* WHERE id=? AND user_id=?                                                 *)
qToggleItem(I, id, uid) ==
    {IF i.id = id /\ i.user_id = uid THEN [i EXCEPT !.done = 1 - @] ELSE i : i \in I}

(* DELETE FROM items WHERE id=? AND user_id=? *)
qDeleteItem(I, id, uid) == {i \in I : ~(i.id = id /\ i.user_id = uid)}

(* GET /items *)
ItemsList(token) ==
    LET u == AuthUser(token)
    IN /\ sessions' = AuthSessions(token)
       /\ IF u = None
          THEN Reply("items/list", 401, <<>>)
          ELSE Reply("items/list", 200, qListItems(items, u))
       /\ UNCHANGED <<outsideSocial, social, sse, process>>

(* POST /items/:id/toggle *)
ItemToggle(token, id) ==
    LET u == AuthUser(token)
    IN /\ sessions' = AuthSessions(token)
       /\ IF u = None
          THEN Reply("items/toggle", 401, <<>>) /\ UNCHANGED items
          ELSE IF id = None
          THEN Reply("items/toggle", 400, <<>>) /\ UNCHANGED items
          ELSE /\ items' = qToggleItem(items, id, u)
               /\ Reply("items/toggle", 200, <<>>)
       /\ UNCHANGED <<outsideSocial, sse, process>>
       /\ UNCHANGED <<nextItemId, goals, nextGoalId, feed_posts, nextPostId,
                      feed_likes, nextLikeId, feed_comments, nextCommentId>>

(* DELETE /items/:id *)
ItemDelete(token, id) ==
    LET u == AuthUser(token)
    IN /\ sessions' = AuthSessions(token)
       /\ IF u = None
          THEN Reply("items/delete", 401, <<>>) /\ UNCHANGED items
          ELSE IF id = None
          THEN Reply("items/delete", 400, <<>>) /\ UNCHANGED items
          ELSE /\ items' = qDeleteItem(items, id, u)
               /\ Reply("items/delete", 200, <<>>)
       /\ UNCHANGED <<outsideSocial, sse, process>>
       /\ UNCHANGED <<nextItemId, goals, nextGoalId, feed_posts, nextPostId,
                      feed_likes, nextLikeId, feed_comments, nextCommentId>>

NextItems ==
    \/ \E t \in TokenInputs, x \in TextInputs : ItemCreate(t, x)
    \/ \E t \in TokenInputs : ItemsList(t)
    \/ \E t \in TokenInputs, i \in ItemIdInputs : ItemToggle(t, i)
    \/ \E t \in TokenInputs, i \in ItemIdInputs : ItemDelete(t, i)

SpecItems == Init /\ [][NextItems]_vars

(* ------------------------------- goals -------------------------------- *)
(* POST /goals *)
GoalCreate(token, title) ==
    LET u == AuthUser(token)
    IN /\ nextGoalId <= MaxGoals
       /\ sessions' = AuthSessions(token)
       /\ IF u = None
          THEN Reply("goals/create", 401, <<>>) /\ UNCHANGED <<goals, nextGoalId>>
          ELSE IF title = None
          THEN Reply("goals/create", 400, <<>>) /\ UNCHANGED <<goals, nextGoalId>>
          ELSE /\ goals' = goals \cup
                     {[id |-> nextGoalId, user_id |-> u, title |-> title, is_public |-> 0]}
               /\ nextGoalId' = nextGoalId + 1
               /\ Reply("goals/create", 201, <<[goal_id |-> nextGoalId]>>)
       /\ UNCHANGED <<outsideSocial, sse, process>>
       /\ UNCHANGED <<items, nextItemId, feed_posts, nextPostId,
                      feed_likes, nextLikeId, feed_comments, nextCommentId>>

(* GET /goals *)
GoalsList(token) ==
    LET u == AuthUser(token)
    IN /\ sessions' = AuthSessions(token)
       /\ IF u = None
          THEN Reply("goals", 401, <<>>)
          ELSE Reply("goals", 200, qListGoals(goals, u))
       /\ UNCHANGED <<outsideSocial, social, sse, process>>

(* -------------------------------- feed -------------------------------- *)
NewPost(uid, goal_id, content) ==
    [id |-> nextPostId, user_id |-> uid, goal_id |-> goal_id, content |-> content]

(* POST /goals/:id/publish *)
GoalPublish(token, id) ==
    LET u == AuthUser(token)
        own == {g \in goals : g.id = id /\ g.user_id = u}
    IN /\ nextPostId <= MaxPosts
       /\ sessions' = AuthSessions(token)
       /\ IF u = None
          THEN Reply("goals/publish", 401, <<>>)
               /\ UNCHANGED <<goals, feed_posts, nextPostId, pushed>>
          ELSE IF id = None
          THEN Reply("goals/publish", 400, <<>>)
               /\ UNCHANGED <<goals, feed_posts, nextPostId, pushed>>
          ELSE /\ goals' = qMakeGoalPublic(goals, id, u)
               /\ IF own = {}
                  THEN UNCHANGED <<feed_posts, nextPostId, pushed>>
                  ELSE LET post == NewPost(u, id,
                                      Content("New goal: ", (CHOOSE g \in own : TRUE).title))
                       IN /\ feed_posts' = feed_posts \cup {post}
                          /\ nextPostId' = nextPostId + 1
                          /\ Push("feed:new", <<PostView(post, feed_likes, feed_comments)>>,
                                  AllStreams)
               /\ Reply("goals/publish", 200, <<>>)
       /\ UNCHANGED <<outsideSocial, sseClients, nextStreamId, process>>
       /\ UNCHANGED <<items, nextItemId, nextGoalId, feed_likes, nextLikeId,
                      feed_comments, nextCommentId>>

(* GET /feed?limit= *)
FeedList(token, limit) ==
    LET u == AuthUser(token)
    IN /\ sessions' = AuthSessions(token)
       /\ IF u = None
          THEN Reply("feed", 401, <<>>)
          ELSE Reply("feed", 200,
                     qListFeed(feed_posts, users, feed_likes, feed_comments,
                               clamp(limit, 1, 50)))
       /\ UNCHANGED <<outsideSocial, social, sse, process>>

(* Mutant: the event is broadcast although the insert did not happen. *)
FeedPost_unsaved(token, content) ==
    LET u == AuthUser(token)
        post == NewPost(u, None, Content("", content))
    IN /\ nextPostId <= MaxPosts
       /\ sessions' = AuthSessions(token)
       /\ IF u = None
          THEN Reply("feed/create", 401, <<>>) /\ UNCHANGED pushed
          ELSE IF content = None
          THEN Reply("feed/create", 400, <<>>) /\ UNCHANGED pushed
          ELSE /\ Push("feed:new", <<PostView(post, {}, {})>>, AllStreams)
               /\ Reply("feed/create", 201, <<>>)
       /\ UNCHANGED <<outsideSocial, sseClients, nextStreamId, social, process>>

(* POST /feed *)
FeedPost(token, content) ==
    LET u == AuthUser(token)
        post == NewPost(u, None, Content("", content))
    IN /\ nextPostId <= MaxPosts
       /\ sessions' = AuthSessions(token)
       /\ IF u = None
          THEN Reply("feed/create", 401, <<>>)
               /\ UNCHANGED <<feed_posts, nextPostId, pushed>>
          ELSE IF content = None
          THEN Reply("feed/create", 400, <<>>)
               /\ UNCHANGED <<feed_posts, nextPostId, pushed>>
          ELSE /\ feed_posts' = feed_posts \cup {post}
               /\ nextPostId' = nextPostId + 1
               /\ Push("feed:new", <<PostView(post, {}, {})>>, AllStreams)
               /\ Reply("feed/create", 201, <<>>)
       /\ UNCHANGED <<outsideSocial, sseClients, nextStreamId, process>>
       /\ UNCHANGED <<items, nextItemId, goals, nextGoalId, feed_likes, nextLikeId,
                      feed_comments, nextCommentId>>

PostExists(P, pid) == \E p \in P : p.id = pid

(* Mutant: the table has no UNIQUE(post_id, user_id), every insert adds. *)
qLikePost_noUnique(L, P, id, pid, uid) ==
    L \cup {[id |-> id, post_id |-> pid, user_id |-> uid]}

(* INSERT OR IGNORE INTO feed_likes: a second row for (post_id, user_id)   *)
(* is ignored by UNIQUE(post_id, user_id).  The foreign key on post_id is  *)
(* not covered by OR IGNORE: the caller sees that failure as a throw.      *)
qLikePost(L, P, id, pid, uid) ==
    IF \E l \in L : l.post_id = pid /\ l.user_id = uid THEN L
    ELSE L \cup {[id |-> id, post_id |-> pid, user_id |-> uid]}

(* DELETE FROM feed_likes WHERE post_id=? AND user_id=? *)
qUnlikePost(L, pid, uid) == {l \in L : ~(l.post_id = pid /\ l.user_id = uid)}

qUserLikedPost(L, pid, uid) == \E l \in L : l.post_id = pid /\ l.user_id = uid

(* POST /feed/:id/like: a toggle.  The route has no try/catch.             *)
Like(token, pid) ==
    LET u == AuthUser(token)
        liked == qUserLikedPost(feed_likes, pid, u)
        after == IF liked THEN qUnlikePost(feed_likes, pid, u)
                 ELSE qLikePost(feed_likes, feed_posts, nextLikeId, pid, u)
    IN /\ nextLikeId <= MaxLikes
       /\ IF u = None
          THEN /\ Reply("feed/like", 401, <<>>)
               /\ sessions' = AuthSessions(token)
               /\ UNCHANGED <<feed_likes, nextLikeId, pushed, sseClients>>
          ELSE IF pid = None
          THEN /\ Reply("feed/like", 400, <<>>)
               /\ UNCHANGED <<sessions, feed_likes, nextLikeId, pushed, sseClients>>
          ELSE IF ~liked /\ ~PostExists(feed_posts, pid)
          THEN /\ Uncaught("feed/like")
               /\ UNCHANGED <<feed_likes, nextLikeId, pushed>>
          ELSE /\ feed_likes' = after
               /\ nextLikeId' = IF after \subseteq feed_likes THEN nextLikeId
                                ELSE nextLikeId + 1
               /\ Push("feed:update",
                       <<[post_id |-> pid, like_count |-> LikeCount(after, pid)]>>,
                       AllStreams)
               /\ Reply("feed/like", 200,
                        <<[like_count |-> LikeCount(after, pid), liked |-> ~liked]>>)
               /\ UNCHANGED <<sessions, sseClients>>
       /\ UNCHANGED <<outsideSocial, nextStreamId, process>>
       /\ UNCHANGED <<items, nextItemId, goals, nextGoalId, feed_posts, nextPostId,
                      feed_comments, nextCommentId>>

(* POST /feed/:id/comment: no try/catch around the insert either *)
Comment(token, pid, text) ==
    LET u == AuthUser(token)
    IN /\ nextCommentId <= MaxComments
       /\ IF u = None
          THEN /\ Reply("feed/comment", 401, <<>>)
               /\ sessions' = AuthSessions(token)
               /\ UNCHANGED <<feed_comments, nextCommentId, pushed, sseClients>>
          ELSE IF pid = None \/ text = None
          THEN /\ Reply("feed/comment", 400, <<>>)
               /\ UNCHANGED <<sessions, feed_comments, nextCommentId, pushed, sseClients>>
          ELSE IF ~PostExists(feed_posts, pid)
          THEN /\ Uncaught("feed/comment")
               /\ UNCHANGED <<feed_comments, nextCommentId, pushed>>
          ELSE /\ feed_comments' = feed_comments \cup
                     {[id |-> nextCommentId, post_id |-> pid, user_id |-> u]}
               /\ nextCommentId' = nextCommentId + 1
               /\ Push("feed:update", <<[post_id |-> pid, comment_added |-> TRUE]>>,
                       AllStreams)
               /\ Reply("feed/comment", 201, <<>>)
               /\ UNCHANGED <<sessions, sseClients>>
       /\ UNCHANGED <<outsideSocial, nextStreamId, process>>
       /\ UNCHANGED <<items, nextItemId, goals, nextGoalId, feed_posts, nextPostId,
                      feed_likes, nextLikeId>>

(* qListComments: comments of a post joined with their authors,           *)
(* ORDER BY c.id ASC                                                        *)
RECURSIVE OrderByIdAsc(_)
OrderByIdAsc(rows) ==
    IF rows = {} THEN <<>>
    ELSE LET low == CHOOSE r \in rows : \A o \in rows : r.id <= o.id
         IN <<[id |-> low.id]>> \o OrderByIdAsc(rows \ {low})
qListComments(C, U, pid) ==
    OrderByIdAsc({c \in C : c.post_id = pid /\ qUserById(U, c.user_id) # {}})

(* GET /feed/:id *)
FeedComments(token, pid) ==
    LET u == AuthUser(token)
    IN /\ sessions' = AuthSessions(token)
       /\ IF u = None
          THEN Reply("feed/comments", 401, <<>>)
          ELSE IF pid = None
          THEN Reply("feed/comments", 400, <<>>)
          ELSE Reply("feed/comments", 200, qListComments(feed_comments, users, pid))
       /\ UNCHANGED <<outsideSocial, social, sse, process>>

(* --------------------------- prefs and photo -------------------------- *)
(* The columns name, locale, theme and photo_base64 of a user are not     *)
(* carried by the user rows here: what these routes read and write is     *)
(* outside the tables of this module.                                     *)
(* GET /prefs *)
PrefsGet(token) ==
    LET u == AuthUser(token)
    IN /\ sessions' = AuthSessions(token)
       /\ IF u = None
          THEN Reply("prefs", 401, <<>>)
          ELSE Reply("prefs", 200, <<[id |-> u]>>)
       /\ UNCHANGED <<outsideSocial, social, sse, process>>

(* POST /prefs: name, locale and theme are normalised, never refused *)
PrefsSet(token) ==
    LET u == AuthUser(token)
    IN /\ sessions' = AuthSessions(token)
       /\ IF u = None
          THEN Reply("prefs/set", 401, <<>>)
          ELSE Reply("prefs/set", 200, <<>>)
       /\ UNCHANGED <<outsideSocial, social, sse, process>>

(* POST /photo: data is a data:image/ URL of at most 500000 bytes, or not *)
Photo(token, data) ==
    LET u == AuthUser(token)
    IN /\ sessions' = AuthSessions(token)
       /\ IF u = None
          THEN Reply("photo", 401, <<>>)
          ELSE IF data = None
          THEN Reply("photo", 400, <<>>)
          ELSE Reply("photo", 200, <<>>)
       /\ UNCHANGED <<outsideSocial, social, sse, process>>

(* ---------------------------------------------------------------------- *)
(* api/[...path].js over api/db.js: one step per awaited statement        *)
(* ---------------------------------------------------------------------- *)
AsyncOps == {"invite", "accept", "cancel", "dm/send", "dm"}

(* Concurrent requests come from the first AsyncUsers seeded users and     *)
(* name each other; the malformed value of each field is kept.             *)
AsyncTokenInputs == 0..AsyncUsers
ArgInputs(op) ==
    IF op \in {"accept", "cancel"} THEN FriendshipIdInputs ELSE 0..AsyncUsers
TextInputsOf(op) == IF op = "dm/send" THEN TextInputs ELSE {None}

Request(op, token, arg, text) ==
    [op |-> op, token |-> token, arg |-> arg, text |-> text, pc |-> "auth",
     u |-> None, other |-> None, liked |-> FALSE, code |-> 0, body |-> <<>>]

(* A warm instance reloads the snapshot it saved: the seeded users and      *)
(* sessions and, between users 1 and 2, no row, a pending invitation by 1   *)
(* or an accepted friendship.                                               *)
SeedFriendship(status) ==
    [id |-> 1, user_a |-> 1, user_b |-> 2, status |-> status, requested_by |-> 1]
SeedFriendshipTables == {{}, {SeedFriendship("pending")}, {SeedFriendship("accepted")}}

InitAsync ==
    /\ users = {SeedUser(i) : i \in 1..SeedUsers}
    /\ nextUserId = SeedUsers + 1
    /\ sessions = {SeedSession(i) : i \in 1..SeedUsers}
    /\ nextToken = SeedUsers + 1
    /\ now = 0
    /\ friendships \in SeedFriendshipTables
    /\ nextFriendshipId = Cardinality(friendships) + 1
    /\ dms = {}
    /\ nextDmId = 1
    /\ resp = Response("none", 0, <<>>)
    /\ reqs = <<>>
    /\ EmptySocial
    /\ NoStreams

Finish(i, code, body) ==
    /\ reqs' = [reqs EXCEPT ![i] = [@ EXCEPT !.pc = "done", !.code = code, !.body = body]]
    /\ resp' = Response(reqs[i].op, code, body)

Goto(i, pc) ==
    /\ reqs' = [reqs EXCEPT ![i] = [@ EXCEPT !.pc = pc]]
    /\ UNCHANGED resp

At(i, op, pc) == i \in DOMAIN reqs /\ reqs[i].op = op /\ reqs[i].pc = pc

(* handler entry: await ensureSchema(), which ends with                     *)
(* DELETE FROM sessions WHERE expires_at < now                              *)
Arrive(op, token, arg, text) ==
    /\ reqs' = Append(reqs, Request(op, token, arg, text))
    /\ sessions' = {s \in sessions : ~Expired(s)}
    /\ UNCHANGED <<users, nextUserId, nextToken, now, friendships,
                   nextFriendshipId, dms, nextDmId, resp>>
    /\ UNCHANGED <<social, sse, process>>

Receive(op, token, arg, text) ==
    Len(reqs) < MaxRequests /\ Arrive(op, token, arg, text)

(* await authUserFromRequest(req), then the body is read and its fields     *)
(* are validated                                                            *)
AsyncAuth(i) ==
    /\ i \in DOMAIN reqs /\ reqs[i].pc = "auth"
    /\ LET r == reqs[i]
           u == AuthUser(r.token)
       IN /\ sessions' = AuthSessions(r.token)
          /\ IF u = None THEN Finish(i, 401, <<>>)
             ELSE IF r.op = "invite" /\ ~isValidEmail(r.arg) THEN Finish(i, 400, <<>>)
             ELSE IF r.op \in {"accept", "cancel"} /\ r.arg = None THEN Finish(i, 400, <<>>)
             ELSE IF r.op = "dm/send" /\ (r.arg = None \/ r.text = None)
             THEN Finish(i, 400, <<>>)
             ELSE IF r.op = "dm" /\ r.arg = None THEN Finish(i, 400, <<>>)
             ELSE IF r.op = "feed/like" /\ r.arg = None THEN Finish(i, 400, <<>>)
             ELSE /\ reqs' = [reqs EXCEPT ![i] =
                        [@ EXCEPT !.u = u,
                                  !.pc = IF r.op = "invite" THEN "lookup"
                                         ELSE IF r.op \in {"accept", "cancel"} THEN "get"
                                         ELSE IF r.op = "feed/like" THEN "liked"
                                         ELSE "find"]]
                  /\ UNCHANGED resp
    /\ UNCHANGED <<users, nextUserId, nextToken, now, friendships,
                   nextFriendshipId, dms, nextDmId>>
    /\ UNCHANGED <<social, sse, process>>

(* invite: const other = await findUserByEmailPublic(email) *)
InviteLookup(i) ==
    /\ At(i, "invite", "lookup")
    /\ LET r == reqs[i]
           found == qUserByEmail(users, r.arg)
       IN IF found = {} THEN Finish(i, 404, <<>>)
          ELSE IF (CHOOSE x \in found : TRUE).id = r.u THEN Finish(i, 400, <<>>)
          ELSE /\ reqs' = [reqs EXCEPT ![i] =
                     [@ EXCEPT !.other = (CHOOSE x \in found : TRUE).id, !.pc = "find"]]
               /\ UNCHANGED resp
    /\ UNCHANGED <<store, now>>
    /\ UNCHANGED <<social, sse, process>>

(* invite: const existing = await findFriendship(a, b2) *)
InviteFind(i) ==
    /\ At(i, "invite", "find")
    /\ IF ExistingFriendship(friendships, reqs[i].u, reqs[i].other) # {}
       THEN Finish(i, 409, <<>>)
       ELSE Goto(i, "insert")
    /\ UNCHANGED <<store, now>>
    /\ UNCHANGED <<social, sse, process>>

(* invite: await insertFriendship({...}); a constraint violation throws     *)
(* into the handler's catch, which answers 400                              *)
InviteInsert(i) ==
    /\ At(i, "invite", "insert")
    /\ nextFriendshipId <= MaxFriendships
    /\ LET row == NewFriendship(reqs[i].u, reqs[i].other)
       IN IF FriendshipConstraintsOk(friendships, users, row)
          THEN /\ friendships' = friendships \cup {row}
               /\ nextFriendshipId' = nextFriendshipId + 1
               /\ Finish(i, 201, <<>>)
          ELSE /\ UNCHANGED <<friendships, nextFriendshipId>>
               /\ Finish(i, 400, <<>>)
    /\ UNCHANGED <<users, nextUserId, sessions, nextToken, now, dms, nextDmId>>
    /\ UNCHANGED <<social, sse, process>>

(* accept, cancel: const row = await getOneFriendship(fid) *)
FriendshipGet(i) ==
    /\ i \in DOMAIN reqs /\ reqs[i].op \in {"accept", "cancel"} /\ reqs[i].pc = "get"
    /\ LET found == qFriendshipById(friendships, reqs[i].arg)
       IN IF found = {} THEN Finish(i, 404, <<>>)
          ELSE IF ~IsParty(CHOOSE f \in found : TRUE, reqs[i].u) THEN Finish(i, 403, <<>>)
          ELSE Goto(i, IF reqs[i].op = "accept" THEN "update" ELSE "delete")
    /\ UNCHANGED <<store, now>>
    /\ UNCHANGED <<social, sse, process>>

(* accept: await updateFriendshipStatus({ id: fid, status: "accepted" }) *)
AcceptUpdate(i) ==
    /\ At(i, "accept", "update")
    /\ friendships' = qUpdateFriendshipStatus(friendships, reqs[i].arg, "accepted")
    /\ Finish(i, 200, <<>>)
    /\ UNCHANGED <<users, nextUserId, sessions, nextToken, now,
                   nextFriendshipId, dms, nextDmId>>
    /\ UNCHANGED <<social, sse, process>>

(* cancel: await deleteFriendship(fid) *)
CancelDelete(i) ==
    /\ At(i, "cancel", "delete")
    /\ friendships' = qDeleteFriendship(friendships, reqs[i].arg)
    /\ Finish(i, 200, <<>>)
    /\ UNCHANGED <<users, nextUserId, sessions, nextToken, now,
                   nextFriendshipId, dms, nextDmId>>
    /\ UNCHANGED <<social, sse, process>>

(* dm, dm/send: const f = await findFriendship(a, b) *)
DmFind(i) ==
    /\ i \in DOMAIN reqs /\ reqs[i].op \in {"dm", "dm/send"} /\ reqs[i].pc = "find"
    /\ IF AcceptedRow(friendships, reqs[i].u, reqs[i].arg) = {}
       THEN Finish(i, 403, <<>>)
       ELSE Goto(i, IF reqs[i].op = "dm" THEN "list" ELSE "insert")
    /\ UNCHANGED <<store, now>>
    /\ UNCHANGED <<social, sse, process>>

(* dm/send: await insertDM({...}) *)
DmInsert(i) ==
    /\ At(i, "dm/send", "insert")
    /\ nextDmId <= MaxDMs
    /\ LET row == [id |-> nextDmId, sender_id |-> reqs[i].u, receiver_id |-> reqs[i].arg]
       IN IF DmConstraintsOk(users, row)
          THEN /\ dms' = dms \cup {row}
               /\ nextDmId' = nextDmId + 1
               /\ Finish(i, 201, <<>>)
          ELSE /\ UNCHANGED <<dms, nextDmId>>
               /\ Finish(i, 400, <<>>)
    /\ UNCHANGED <<users, nextUserId, sessions, nextToken, now,
                   friendships, nextFriendshipId>>
    /\ UNCHANGED <<social, sse, process>>

(* dm: const rows = await listDM({...}) *)
DmListRows(i) ==
    /\ At(i, "dm", "list")
    /\ Finish(i, 200, MapDm(qListDM(dms, reqs[i].u, reqs[i].arg,
                                    clamp(MaxDMs, 1, 100), clamp(None, 0, 1000000)),
                            reqs[i].u))
    /\ UNCHANGED <<store, now>>
    /\ UNCHANGED <<social, sse, process>>

(* feed/like: const liked = await userLikedPost(pid, u.id) *)
LikeLookup(i) ==
    /\ At(i, "feed/like", "liked")
    /\ reqs' = [reqs EXCEPT ![i] =
                  [@ EXCEPT !.liked = qUserLikedPost(feed_likes, reqs[i].arg, reqs[i].u),
                            !.pc = "toggle"]]
    /\ UNCHANGED <<store, now, resp, social, sse, process>>

(* feed/like: if (liked) await unlikePost(pid, u.id);                      *)
(*            else await likePost(pid, u.id, nowISO());                     *)
(* The insert of a like on a missing post violates the foreign key and     *)
(* run() throws; the route has no try/catch, the handler ends by the throw. *)
LikeToggle(i) ==
    /\ At(i, "feed/like", "toggle")
    /\ nextLikeId <= MaxLikes
    /\ LET r == reqs[i]
           after == IF r.liked THEN qUnlikePost(feed_likes, r.arg, r.u)
                    ELSE qLikePost(feed_likes, feed_posts, nextLikeId, r.arg, r.u)
       IN IF ~r.liked /\ ~(PostExists(feed_posts, r.arg) /\ qUserById(users, r.u) # {})
          THEN Finish(i, 0, <<>>) /\ UNCHANGED <<feed_likes, nextLikeId>>
          ELSE /\ feed_likes' = after
               /\ nextLikeId' = IF after \subseteq feed_likes THEN nextLikeId
                                ELSE nextLikeId + 1
               /\ Goto(i, "count")
    /\ UNCHANGED <<store, now, sse, process>>
    /\ UNCHANGED <<items, nextItemId, goals, nextGoalId, feed_posts, nextPostId,
                   feed_comments, nextCommentId>>

(* feed/like: const count = await countLikes(pid), then the response *)
LikeCountRows(i) ==
    /\ At(i, "feed/like", "count")
    /\ Finish(i, 200, <<[like_count |-> LikeCount(feed_likes, reqs[i].arg),
                         liked |-> ~reqs[i].liked]>>)
    /\ UNCHANGED <<store, now, social, sse, process>>

NextAsync ==
    \/ \E op \in AsyncOps, t \in AsyncTokenInputs :
         \E a \in ArgInputs(op), x \in TextInputsOf(op) : Receive(op, t, a, x)
    \/ \E i \in 1..MaxRequests : AsyncAuth(i)
    \/ \E i \in 1..MaxRequests : InviteLookup(i)
    \/ \E i \in 1..MaxRequests : InviteFind(i)
    \/ \E i \in 1..MaxRequests : InviteInsert(i)
    \/ \E i \in 1..MaxRequests : FriendshipGet(i)
    \/ \E i \in 1..MaxRequests : AcceptUpdate(i)
    \/ \E i \in 1..MaxRequests : CancelDelete(i)
    \/ \E i \in 1..MaxRequests : DmFind(i)
    \/ \E i \in 1..MaxRequests : DmInsert(i)
    \/ \E i \in 1..MaxRequests : DmListRows(i)

SpecAsync == InitAsync /\ [][NextAsync]_vars

(* ---------------------------------------------------------------------- *)
(* Server.js: goals, their feed posts and who sees them                   *)
(* ---------------------------------------------------------------------- *)
(* The database file found at start holds the seeded users and, between     *)
(* users 1 and 2, no row, a pending invitation or an accepted friendship.   *)
NextGoals ==
    \/ \E t \in TokenInputs, x \in TextInputs : GoalCreate(t, x)
    \/ \E t \in TokenInputs, g \in GoalIdInputs : GoalPublish(t, g)
    \/ \E t \in TokenInputs : GoalsList(t)
    \/ \E t \in TokenInputs, l \in LimitInputs : FeedList(t, l)
    \/ \E t \in TokenInputs, v \in UserIdInputs : Profile(t, v)
    \/ \E t \in TokenInputs, f \in FriendshipIdInputs : Cancel(t, f)
    \/ \E t \in TokenInputs : Events(t)

SpecGoals == InitAsync /\ [][NextGoals]_vars

(* ---------------------------------------------------------------------- *)
(* Server.js: account deletion over every table                           *)
(* ---------------------------------------------------------------------- *)
(* The database file found at start: the seeded users and sessions, the    *)
(* friendship of users 1 and 2 in one of its states, and what user 1 left   *)
(* there earlier: an item, a goal, and the feed post of its publication.    *)
SeedItem == [id |-> 1, user_id |-> 1, done |-> 0]
SeedGoal == [id |-> 1, user_id |-> 1, title |-> 1, is_public |-> 1]
SeedPost == [id |-> 1, user_id |-> 1, goal_id |-> 1, content |-> Content("New goal: ", 1)]

InitSocial ==
    /\ users = {SeedUser(i) : i \in 1..SeedUsers}
    /\ nextUserId = SeedUsers + 1
    /\ sessions = {SeedSession(i) : i \in 1..SeedUsers}
    /\ nextToken = SeedUsers + 1
    /\ now = 0
    /\ friendships \in SeedFriendshipTables
    /\ nextFriendshipId = Cardinality(friendships) + 1
    /\ dms = {} /\ nextDmId = 1
    /\ resp = Response("none", 0, <<>>)
    /\ reqs = <<>>
    /\ items = {SeedItem} /\ nextItemId = 2
    /\ goals = {SeedGoal} /\ nextGoalId = 2
    /\ feed_posts = {SeedPost} /\ nextPostId = 2
    /\ feed_likes = {} /\ nextLikeId = 1
    /\ feed_comments = {} /\ nextCommentId = 1
    /\ NoStreams

NextSocial ==
    \/ \E t \in AsyncTokenInputs, x \in TextInputs : FeedPost(t, x)
    \/ \E t \in AsyncTokenInputs, q \in PostIdInputs : Like(t, q)
    \/ \E t \in AsyncTokenInputs, q \in PostIdInputs, x \in TextInputs : Comment(t, q, x)
    \/ \E t \in AsyncTokenInputs, v \in 0..AsyncUsers, x \in TextInputs : DmSend(t, v, x)
    \/ \E t \in TokenInputs : Friends(t)
    \/ \E t \in TokenInputs : AccountDelete(t)

SpecSocial == InitSocial /\ [][NextSocial]_vars

(* ---------------------------------------------------------------------- *)
(* Server.js: what is written to the open event streams                   *)
(* ---------------------------------------------------------------------- *)
(* The same database file, with users 1 and 2 friends; users open and     *)
(* close streams, post, publish, send messages, log out and delete        *)
(* accounts while the clock advances.  User 3 only listens.               *)
InitPush == InitSocial /\ friendships = {SeedFriendship("accepted")}

NextPush ==
    \/ \E t \in TokenInputs : Events(t)
    \/ \E c \in 1..MaxStreams : EventsClose(c)
    \/ \E t \in AsyncTokenInputs, x \in TextInputs : FeedPost(t, x)
    \/ \E t \in AsyncTokenInputs, g \in GoalIdInputs : GoalPublish(t, g)
    \/ \E t \in AsyncTokenInputs, v \in 0..AsyncUsers, x \in TextInputs : DmSend(t, v, x)
    \/ \E t \in AsyncTokenInputs : Logout(t)
    \/ \E t \in AsyncTokenInputs : AccountDelete(t)
    \/ Tick

SpecPush == InitPush /\ [][NextPush]_vars

(* ---------------------------------------------------------------------- *)
(* Server.js: requests that present no live session                       *)
(* ---------------------------------------------------------------------- *)
(* Users log in, log out, delete their account and let sessions expire;   *)
(* every route that resolves a session is then called with a token that   *)
(* resolves to none: absent, unknown, logged out, expired, or of a        *)
(* deleted account.                                                       *)
Stale(token) == AuthUser(token) = None

NextStale ==
    \/ \E e \in EmailInputs, p \in PasswordInputs : Login(e, p)
    \/ \E t \in TokenInputs : Logout(t)
    \/ \E t \in TokenInputs : AccountDelete(t)
    \/ Tick
    \/ \E t \in TokenInputs : Stale(t) /\ Me(t)
    \/ \E t \in TokenInputs : Stale(t) /\ Events(t)
    \/ \E t \in TokenInputs : Stale(t) /\ PrefsGet(t)
    \/ \E t \in TokenInputs : Stale(t) /\ PrefsSet(t)
    \/ \E t \in TokenInputs, x \in TextInputs : Stale(t) /\ Photo(t, x)
    \/ \E t \in TokenInputs : Stale(t) /\ ItemsList(t)
    \/ \E t \in TokenInputs, x \in TextInputs : Stale(t) /\ ItemCreate(t, x)
    \/ \E t \in TokenInputs, i \in ItemIdInputs : Stale(t) /\ ItemToggle(t, i)
    \/ \E t \in TokenInputs, i \in ItemIdInputs : Stale(t) /\ ItemDelete(t, i)
    \/ \E t \in TokenInputs : Stale(t) /\ Friends(t)
    \/ \E t \in TokenInputs, e \in EmailInputs : Stale(t) /\ Invite(t, e)
    \/ \E t \in TokenInputs, f \in FriendshipIdInputs : Stale(t) /\ Accept(t, f)
    \/ \E t \in TokenInputs, f \in FriendshipIdInputs : Stale(t) /\ Cancel(t, f)
    \/ \E t \in TokenInputs : Stale(t) /\ GoalsList(t)
    \/ \E t \in TokenInputs, x \in TextInputs : Stale(t) /\ GoalCreate(t, x)
    \/ \E t \in TokenInputs, g \in GoalIdInputs : Stale(t) /\ GoalPublish(t, g)
    \/ \E t \in TokenInputs, l \in LimitInputs : Stale(t) /\ FeedList(t, l)
    \/ \E t \in TokenInputs, q \in PostIdInputs : Stale(t) /\ FeedComments(t, q)
    \/ \E t \in TokenInputs, x \in TextInputs : Stale(t) /\ FeedPost(t, x)
    \/ \E t \in TokenInputs, q \in PostIdInputs : Stale(t) /\ Like(t, q)
    \/ \E t \in TokenInputs, q \in PostIdInputs, x \in TextInputs :
          Stale(t) /\ Comment(t, q, x)
    \/ \E t \in TokenInputs, v \in UserIdInputs, l \in DmLimitInputs, o \in OffsetInputs :
          Stale(t) /\ DmList(t, v, l, o)
    \/ \E t \in TokenInputs, v \in UserIdInputs, x \in TextInputs :
          Stale(t) /\ DmSend(t, v, x)
    \/ \E t \in TokenInputs, v \in UserIdInputs : Stale(t) /\ Profile(t, v)

SpecStale == InitPush /\ [][NextStale]_vars

(* ---------------------------------------------------------------------- *)
(* Like toggles of both deployments                                       *)
(* ---------------------------------------------------------------------- *)
(* The like route of Server.js, one step per request, and the like route  *)
(* of api/[...path].js, one step per awaited statement with up to         *)
(* MaxRequests requests in flight, over the same tables: a behaviour of   *)
(* either deployment is a behaviour of this specification.                *)
NextLikes ==
    \/ \E t \in AsyncTokenInputs, q \in PostIdInputs : Like(t, q)
    \/ \E t \in AsyncTokenInputs, q \in PostIdInputs : Receive("feed/like", t, q, None)
    \/ \E i \in 1..MaxRequests : AsyncAuth(i)
    \/ \E i \in 1..MaxRequests : LikeLookup(i)
    \/ \E i \in 1..MaxRequests : LikeToggle(i)
    \/ \E i \in 1..MaxRequests : LikeCountRows(i)
    \/ \E t \in AsyncTokenInputs, x \in TextInputs : FeedPost(t, x)

SpecLikes == InitPush /\ [][NextLikes]_vars

(* ---------------------------------------------------------------------- *)
(* Serverless catch-all on better-sqlite3: routes and the polling /events *)
(* ---------------------------------------------------------------------- *)
(* getDb(): the first call of a process opens the file and ends with       *)
(* DELETE FROM sessions WHERE expires_at < now; later calls return `db`.    *)
getDb(S) == IF dbOpen THEN S ELSE {s \in S : ~Expired(s)}

(* authUserFromRequest(req, q) over the sessions getDb() left *)
authUserFromRequest(S, token) ==
    LET rows == qFindSession(S, users, token)
    IN IF rows = {} THEN None
       ELSE LET row == CHOOSE s \in rows : TRUE
            IN IF Expired(row) THEN None ELSE row.user_id
authSessions(S, token) ==
    {s \in S : ~(s.token = token /\ Expired(s) /\ \E u \in users : u.id = s.user_id)}

(* What a serverless request leaves alone outside the database: it opens  *)
(* `db` and writes to no stream.                                          *)
ServerlessFrame == dbOpen' = TRUE /\ UNCHANGED <<sse, polls, limiter, opener>>

(* POST /dm/send: the insert, and no push *)
ServerlessDmSendRoute(token, friend_id, text) ==
    LET S == getDb(sessions)
        u == authUserFromRequest(S, token)
        row == [id |-> nextDmId, sender_id |-> u, receiver_id |-> friend_id]
    IN /\ nextDmId <= MaxPollDMs
       /\ sessions' = authSessions(S, token)
       /\ IF u = None
          THEN Reply("dm/send", 401, <<>>) /\ UNCHANGED <<dms, nextDmId>>
          ELSE IF friend_id = None \/ text = None
          THEN Reply("dm/send", 400, <<>>) /\ UNCHANGED <<dms, nextDmId>>
          ELSE IF AcceptedRow(friendships, u, friend_id) = {}
          THEN Reply("dm/send", 403, <<>>) /\ UNCHANGED <<dms, nextDmId>>
          ELSE IF ~DmConstraintsOk(users, row)
          THEN Reply("dm/send", 400, <<>>) /\ UNCHANGED <<dms, nextDmId>>
          ELSE /\ dms' = dms \cup {row}
               /\ nextDmId' = nextDmId + 1
               /\ Reply("dm/send", 201, <<>>)
       /\ UNCHANGED <<users, nextUserId, nextToken, now, friendships,
                      nextFriendshipId, reqs, social>>
ServerlessDmSend(token, friend_id, text) ==
    ServerlessDmSendRoute(token, friend_id, text) /\ ServerlessFrame

(* POST /feed: the insert, and no push *)
ServerlessFeedPostRoute(token, content) ==
    LET S == getDb(sessions)
        u == authUserFromRequest(S, token)
    IN /\ nextPostId <= MaxPosts
       /\ sessions' = authSessions(S, token)
       /\ IF u = None
          THEN Reply("feed/create", 401, <<>>) /\ UNCHANGED <<feed_posts, nextPostId>>
          ELSE IF content = None
          THEN Reply("feed/create", 400, <<>>) /\ UNCHANGED <<feed_posts, nextPostId>>
          ELSE /\ feed_posts' = feed_posts \cup {NewPost(u, None, Content("", content))}
               /\ nextPostId' = nextPostId + 1
               /\ Reply("feed/create", 201, <<>>)
       /\ UNCHANGED <<outsideSocial, items, nextItemId, goals, nextGoalId,
                      feed_likes, nextLikeId, feed_comments, nextCommentId>>
ServerlessFeedPost(token, content) ==
    ServerlessFeedPostRoute(token, content) /\ ServerlessFrame

(* POST /account/delete *)
ServerlessAccountDeleteRoute(token) ==
    LET S == getDb(sessions)
        u == authUserFromRequest(S, token)
    IN /\ IF u = None
          THEN /\ sessions' = authSessions(S, token)
               /\ Reply("account/delete", 401, <<>>)
               /\ UNCHANGED <<users, friendships, dms>>
               /\ UNCHANGED <<items, goals, feed_posts, feed_likes, feed_comments>>
          ELSE /\ users' = {x \in users : x.id # u}
               /\ sessions' = CascadeSessions(S, u)
               /\ friendships' = CascadeFriendships(friendships, u)
               /\ dms' = CascadeDms(dms, u)
               /\ items' = CascadeItems(items, u)
               /\ goals' = CascadeGoals(goals, u)
               /\ feed_posts' = CascadePosts(feed_posts, goals, u)
               /\ feed_likes' = CascadeLikes(feed_likes, feed_posts, u)
               /\ feed_comments' = CascadeComments(feed_comments, feed_posts, u)
               /\ Reply("account/delete", 200, <<>>)
       /\ UNCHANGED <<nextUserId, nextToken, now, nextFriendshipId, nextDmId, reqs>>
       /\ UNCHANGED <<nextItemId, nextGoalId, nextPostId, nextLikeId, nextCommentId>>
ServerlessAccountDelete(token) == ServerlessAccountDeleteRoute(token) /\ ServerlessFrame

(* SELECT IFNULL(MAX(id),0) *)
MaxIdOf(rows) ==
    IF rows = {} THEN 0 ELSE CHOOSE m \in {r.id : r \in rows} : \A r \in rows : r.id <= m

(* ... ORDER BY id ASC, whole rows *)
RECURSIVE RowsByIdAsc(_)
RowsByIdAsc(rows) ==
    IF rows = {} THEN <<>>
    ELSE LET low == CHOOSE r \in rows : \A o \in rows : r.id <= o.id
         IN <<low>> \o RowsByIdAsc(rows \ {low})

(* Mutant: the cursor is compared with >=. *)
newDm_fromCursor(D, lastDmId, userId) ==
    RowsByIdAsc({d \in D : d.id >= lastDmId /\ d.receiver_id = userId})

(* SELECT ... FROM dms WHERE id>? AND receiver_id=? ORDER BY id ASC *)
newDm(D, lastDmId, userId) ==
    RowsByIdAsc({d \in D : d.id > lastDmId /\ d.receiver_id = userId})

(* SELECT ... FROM feed_posts f JOIN users u ... WHERE f.id>? ORDER BY f.id ASC *)
newFeed(P, U, lastFeedId) ==
    RowsByIdAsc({p \in P : p.id > lastFeedId /\ qUserById(U, p.user_id) # {}})

(* for (const m of rows) last = Math.max(last, m.id|0) *)
RECURSIVE CursorAfter(_, _)
CursorAfter(last, rows) ==
    IF rows = <<>> THEN last ELSE CursorAfter(Max(last, Head(rows).id), Tail(rows))

(* for (const m of rows) res.write(`event: ${type} ...`): one event per    *)
(* row, in the order of the rows; the row stands for the data written.     *)
RECURSIVE EventsOf(_, _)
EventsOf(type, rows) ==
    IF rows = <<>> THEN <<>>
    ELSE <<[type |-> type, row |-> Head(rows)]>> \o EventsOf(type, Tail(rows))

(* GET /events?token= (polling): a live session opens a stream whose two    *)
(* cursors start at the highest ids stored.  startDmId and written record   *)
(* the first cursor and the feed:new and dm:new events written so far; the *)
(* keepalive pings carry no data and are not recorded.                      *)
ServerlessEvents(token) ==
    LET S == getDb(sessions)
        rows == qFindSession(S, users, token)
    IN /\ Len(polls) < MaxPolls
       /\ sessions' = S
       /\ dbOpen' = TRUE
       /\ IF rows = {} \/ Expired(CHOOSE r \in rows : TRUE)
          THEN Reply("events", 401, <<>>) /\ UNCHANGED polls
          ELSE /\ Reply("events", 200, <<>>)
               /\ polls' = Append(polls,
                     [user_id |-> (CHOOSE r \in rows : TRUE).user_id,
                      lastFeedId |-> MaxIdOf(feed_posts),
                      lastDmId |-> MaxIdOf(dms),
                      startDmId |-> MaxIdOf(dms),
                      open |-> TRUE,
                      written |-> <<>>])
       /\ UNCHANGED <<users, nextUserId, nextToken, friendships, nextFriendshipId,
                      dms, nextDmId, now, reqs, social, sse, limiter, opener>>

(* The setInterval callback of stream i: new posts, then new messages for  *)
(* the stream's user, each advancing its cursor; after 55 s (timeUp) the   *)
(* interval is cleared and the response ended.                              *)
PollTick(i, timeUp) ==
    /\ i \in DOMAIN polls /\ polls[i].open
    /\ LET c == polls[i]
           posts == newFeed(feed_posts, users, c.lastFeedId)
           msgs == newDm(dms, c.lastDmId, c.user_id)
       IN polls' = [polls EXCEPT ![i] =
             [c EXCEPT !.lastFeedId = CursorAfter(c.lastFeedId, posts),
                       !.lastDmId = CursorAfter(c.lastDmId, msgs),
                       !.written = @ \o EventsOf("feed:new", posts)
                                     \o EventsOf("dm:new", msgs),
                       !.open = ~timeUp]]
    /\ UNCHANGED <<store, now, resp, reqs, social, sse, dbOpen, limiter, opener>>

(* req.on("close", () => clearInterval(interval)) *)
PollClose(i) ==
    /\ i \in DOMAIN polls /\ polls[i].open
    /\ polls' = [polls EXCEPT ![i] = [@ EXCEPT !.open = FALSE]]
    /\ UNCHANGED <<store, now, resp, reqs, social, sse, dbOpen, limiter, opener>>

(* Users 1 and 2 are friends: they write to each other, post and delete   *)
(* their accounts while streams are opened, polled and closed.            *)
NextPoll ==
    \/ \E t \in AsyncTokenInputs : ServerlessEvents(t)
    \/ \E i \in 1..MaxPolls, up \in BOOLEAN : PollTick(i, up)
    \/ \E i \in 1..MaxPolls : PollClose(i)
    \/ \E t \in AsyncTokenInputs, v \in 0..AsyncUsers, x \in TextInputs :
          ServerlessDmSend(t, v, x)
    \/ \E t \in AsyncTokenInputs, x \in TextInputs : ServerlessFeedPost(t, x)
    \/ \E t \in AsyncTokenInputs : ServerlessAccountDelete(t)

SpecPoll == InitPush /\ [][NextPoll]_vars

(* ---------------------------------------------------------------------- *)
(* Server.js: the rate limiter in front of every route                    *)
(* ---------------------------------------------------------------------- *)
(* req.socket.remoteAddress || "unknown" *)
IPs == {1, 2}

(* let e = rlStore.get(ip); if (!e || now - e.windowStart >= WINDOW)       *)
(*   e = { windowStart: now, countAuth: 0, countGeneric: 0 }               *)
rlEntry(ip) ==
    IF ip \notin DOMAIN rlStore \/ now - rlStore[ip].windowStart >= RATE_LIMIT_WINDOW_MS
    THEN [windowStart |-> now, countAuth |-> 0, countGeneric |-> 0]
    ELSE rlStore[ip]

(* Mutant: one counter for both kinds of path. *)
rlCounted_shared(ip, isAuthPath) ==
    [rlEntry(ip) EXCEPT !.countAuth = @ + 1, !.countGeneric = @ + 1]

(* if (isAuthPath) e.countAuth++; else e.countGeneric++ *)
rlCounted(ip, isAuthPath) ==
    IF isAuthPath THEN [rlEntry(ip) EXCEPT !.countAuth = @ + 1]
    ELSE [rlEntry(ip) EXCEPT !.countGeneric = @ + 1]

(* rateLimitOk(ip, isAuthPath): the value returned *)
rateLimitOk(ip, isAuthPath) ==
    IF isAuthPath THEN rlCounted(ip, isAuthPath).countAuth <= RATE_LIMIT_MAX_AUTH
    ELSE rlCounted(ip, isAuthPath).countGeneric <= RATE_LIMIT_MAX_GENERIC

Put(f, k, v) == [j \in DOMAIN f \cup {k} |-> IF j = k THEN v ELSE f[j]]

(* admitted[ip]: the requests of ip let through since the window that     *)
(* rlStore holds for ip began                                             *)
AdmittedIn(ip, windowStart) ==
    IF ip \in DOMAIN admitted /\ admitted[ip].windowStart = windowStart
    THEN admitted[ip]
    ELSE [windowStart |-> windowStart, auth |-> 0, generic |-> 0]

(* The request handler up to the routes: the limiter counts the request    *)
(* and either answers 429 or lets the route run.                            *)
Handler(ip, isAuthPath, op, Route) ==
    LET e == rlCounted(ip, isAuthPath)
        a == AdmittedIn(ip, e.windowStart)
    IN /\ e.countAuth <= MaxRateCount /\ e.countGeneric <= MaxRateCount
       /\ rlStore' = Put(rlStore, ip, e)
       /\ IF ~rateLimitOk(ip, isAuthPath)
          THEN /\ Reply(op, 429, <<>>)
               /\ admitted' = Put(admitted, ip, a)
               /\ UNCHANGED <<store, now, reqs, social>>
          ELSE /\ Route
               /\ admitted' = Put(admitted, ip,
                     IF isAuthPath THEN [a EXCEPT !.auth = @ + 1]
                     ELSE [a EXCEPT !.generic = @ + 1])
       /\ UNCHANGED <<sse, polls, dbOpen, opener>>

NextRate ==
    \/ \E ip \in IPs, e \in 0..AsyncUsers, p \in PasswordInputs :
          Handler(ip, TRUE, "login", LoginRoute(e, p))
    \/ \E ip \in IPs, t \in AsyncTokenInputs, x \in TextInputs :
          Handler(ip, FALSE, "items", ItemCreateRoute(t, x))
    \/ Tick

SpecRate == Init /\ [][NextRate]_vars

(* ---------------------------------------------------------------------- *)
(* Server.js: messages across the removal of a friendship                 *)
(* ---------------------------------------------------------------------- *)
(* Users 1 and 2 start as friends: they write to each other, read the     *)
(* history page by page, remove the friendship, invite and accept again,  *)
(* or delete their accounts.                                              *)
SecondFriendship ==
    [id |-> 2, user_a |-> 1, user_b |-> 3, status |-> "accepted", requested_by |-> 3]

InitDm ==
    /\ users = {SeedUser(i) : i \in 1..SeedUsers}
    /\ nextUserId = SeedUsers + 1
    /\ sessions = {SeedSession(i) : i \in 1..SeedUsers}
    /\ nextToken = SeedUsers + 1
    /\ now = 0
    /\ friendships = {SeedFriendship("accepted"), SecondFriendship}
    /\ nextFriendshipId = 3
    /\ dms = {} /\ nextDmId = 1
    /\ resp = Response("none", 0, <<>>)
    /\ reqs = <<>>
    /\ items = {SeedItem} /\ nextItemId = 2
    /\ goals = {SeedGoal} /\ nextGoalId = 2
    /\ feed_posts = {SeedPost} /\ nextPostId = 2
    /\ feed_likes = {} /\ nextLikeId = 1
    /\ feed_comments = {} /\ nextCommentId = 1
    /\ NoStreams

DmTokenInputs == 1..SeedUsers
DmUserInputs == 1..SeedUsers
DmFriendshipIdInputs == 0..MaxDmFriendships

NextDm ==
    \/ \E t \in DmTokenInputs, v \in DmUserInputs, x \in TextInputs : DmSend(t, v, x)
    \/ \E t \in DmTokenInputs, v \in DmUserInputs :
          \E l \in DmLimitInputs, o \in OffsetInputs : DmList(t, v, l, o)
    \/ \E t \in DmTokenInputs, f \in DmFriendshipIdInputs : Cancel(t, f)
    \/ \E t \in DmTokenInputs, e \in DmUserInputs :
          /\ nextFriendshipId <= MaxDmFriendships
          /\ InviteRoute(t, e)
          /\ UNCHANGED <<sse, process>>
    \/ \E t \in DmTokenInputs, f \in DmFriendshipIdInputs : Accept(t, f)
    \/ \E t \in DmTokenInputs : AccountDelete(t)

SpecDm == InitDm /\ [][NextDm]_vars

(* ---------------------------------------------------------------------- *)
(* api/[...path].js: accept, cancel/remove and invite in flight together  *)
(* ---------------------------------------------------------------------- *)
(* Users 1 and 2 with a pending invitation; up to MaxRaceRequests         *)
(* friends requests are in flight, each advancing one await at a time.    *)
RaceOps == {"invite", "accept", "cancel"}
RaceTokenInputs == 1..AsyncUsers
RaceArgInputs == 1..AsyncUsers

InitRace == InitAsync /\ friendships = {SeedFriendship("pending")}

NextRace ==
    \/ \E op \in RaceOps, t \in RaceTokenInputs, a \in RaceArgInputs :
         Len(reqs) < MaxRaceRequests /\ Arrive(op, t, a, None)
    \/ \E i \in 1..MaxRaceRequests : AsyncAuth(i)
    \/ \E i \in 1..MaxRaceRequests : InviteLookup(i)
    \/ \E i \in 1..MaxRaceRequests : InviteFind(i)
    \/ \E i \in 1..MaxRaceRequests : InviteInsert(i)
    \/ \E i \in 1..MaxRaceRequests : FriendshipGet(i)
    \/ \E i \in 1..MaxRaceRequests : AcceptUpdate(i)
    \/ \E i \in 1..MaxRaceRequests : CancelDelete(i)

SpecRace == InitRace /\ [][NextRace]_vars

(* ---------------------------------------------------------------------- *)
(* api/[...path].js: POST /auth/register, one step per await              *)
(* ---------------------------------------------------------------------- *)
(* An email as typed: the address and whether it is written with capital  *)
(* letters or spaces around it.                                           *)
RawEmailInputs == {<<e, c>> : e \in {None, 1, 2}, c \in BOOLEAN}

(* (b.email || "").trim().toLowerCase() *)
TrimLower(raw) == raw[1]

(* email TEXT NOT NULL UNIQUE *)
UserConstraintsOk(U, row) == \A u \in U : u.email # row.email

InitRegister ==
    /\ users = {SeedUser(1)}
    /\ nextUserId = 2
    /\ sessions = {SeedSession(1)}
    /\ nextToken = 2
    /\ now = 0
    /\ friendships = {} /\ nextFriendshipId = 1
    /\ dms = {} /\ nextDmId = 1
    /\ resp = Response("none", 0, <<>>)
    /\ reqs = <<>>
    /\ EmptySocial
    /\ NoStreams

(* await ensureSchema(); const b = await readJsonBody(req) *)
RegisterArrive(raw, password) ==
    /\ Len(reqs) < MaxRaceRequests
    /\ reqs' = Append(reqs, [Request("register", None, raw, password) EXCEPT !.pc = "find"])
    /\ sessions' = {s \in sessions : ~Expired(s)}
    /\ UNCHANGED <<users, nextUserId, nextToken, now, friendships,
                   nextFriendshipId, dms, nextDmId, resp>>
    /\ UNCHANGED <<social, sse, process>>

(* validation, then const u = await userByEmail(email); if (u) 409 *)
RegisterFind(i) ==
    /\ At(i, "register", "find")
    /\ LET email == TrimLower(reqs[i].arg)
       IN IF ~isValidEmail(email) \/ ~PasswordLengthOk(reqs[i].text)
          THEN Finish(i, 400, <<>>)
          ELSE IF qUserByEmail(users, email) # {}
          THEN Finish(i, 409, <<>>)
          ELSE Goto(i, "insert")
    /\ UNCHANGED <<store, now>>
    /\ UNCHANGED <<social, sse, process>>

(* await insertUser(...); a constraint error is caught: 400 "Bad request" *)
RegisterInsert(i) ==
    /\ At(i, "register", "insert")
    /\ LET row == [id |-> nextUserId, email |-> TrimLower(reqs[i].arg),
                   password_hash |-> reqs[i].text]
       IN IF UserConstraintsOk(users, row)
          THEN /\ nextUserId <= MaxUsers
               /\ users' = users \cup {row}
               /\ nextUserId' = nextUserId + 1
               /\ Finish(i, 201, <<>>)
          ELSE /\ UNCHANGED <<users, nextUserId>>
               /\ Finish(i, 400, <<>>)
    /\ UNCHANGED <<sessions, nextToken, now, friendships, nextFriendshipId,
                   dms, nextDmId>>
    /\ UNCHANGED <<social, sse, process>>

NextRegister ==
    \/ \E raw \in RawEmailInputs, p \in PasswordInputs : RegisterArrive(raw, p)
    \/ \E i \in 1..MaxRaceRequests : RegisterFind(i)
    \/ \E i \in 1..MaxRaceRequests : RegisterInsert(i)

SpecRegister == InitRegister /\ [][NextRegister]_vars

(* ---------------------------------------------------------------------- *)
(* sqlite-local openDB and api/_db.js getDB: opening the database         *)
(* ---------------------------------------------------------------------- *)
(* A call of run, all or getDB: where it is suspended and the Database    *)
(* object its statement ran on (0 while it has not run).                  *)
Call(fn, pc) == [fn |-> fn, pc |-> pc, inst |-> 0]

DbFrame == UNCHANGED <<store, now, resp, reqs, social, sse, polls, dbOpen, limiter>>

(* run / all: await openDB(), up to openDB's first await:                 *)
(*   if (loaded && db) return db;                                         *)
(*   if (!SQL) { SQL = await initSqlJs(...) }                             *)
(*   const bytes = await loadBytes();                                     *)
openDB(fn) ==
    /\ Len(calls) < MaxCalls
    /\ calls' = Append(calls, Call(fn, IF loaded /\ db # 0 THEN "opened"
                                       ELSE IF ~SQL THEN "initSqlJs"
                                       ELSE "loadBytes"))
    /\ UNCHANGED <<SQL, db, loaded, opened, dbPromise, created>>
    /\ DbFrame

(* SQL = await initSqlJs(...) resumes; const bytes = await loadBytes() *)
initSqlJs(i) ==
    /\ i \in DOMAIN calls /\ calls[i].pc = "initSqlJs"
    /\ SQL' = TRUE
    /\ calls' = [calls EXCEPT ![i].pc = "loadBytes"]
    /\ UNCHANGED <<db, loaded, opened, dbPromise, created>>
    /\ DbFrame

(* db = bytes ? new SQL.Database(bytes) : new SQL.Database();             *)
(* loaded = true; return db;                                              *)
loadBytes(i) ==
    /\ i \in DOMAIN calls /\ calls[i].pc = "loadBytes"
    /\ opened' = opened + 1
    /\ db' = opened + 1
    /\ loaded' = TRUE
    /\ calls' = [calls EXCEPT ![i].pc = "opened"]
    /\ UNCHANGED <<SQL, dbPromise, created>>
    /\ DbFrame

(* after await openDB(): db.prepare(sql) ... stmt.step() on the module's db *)
Statement(i) ==
    /\ i \in DOMAIN calls /\ calls[i].pc = "opened"
    /\ calls' = [calls EXCEPT ![i] = [@ EXCEPT !.pc = "done", !.inst = db]]
    /\ UNCHANGED <<SQL, db, loaded, opened, dbPromise, created>>
    /\ DbFrame

(* if (!_dbPromise) _dbPromise = createOrLoadDB(); return await _dbPromise *)
getDB ==
    /\ Len(calls) < MaxCalls
    /\ calls' = Append(calls, Call("getDB", "await"))
    /\ IF dbPromise = 0
       THEN dbPromise' = created + 1 /\ created' = created + 1
       ELSE UNCHANGED <<dbPromise, created>>
    /\ UNCHANGED <<SQL, db, loaded, opened>>
    /\ DbFrame

(* await _dbPromise resumes with the Database the promise resolved to *)
getDBResolved(i) ==
    /\ i \in DOMAIN calls /\ calls[i].pc = "await"
    /\ calls' = [calls EXCEPT ![i] = [@ EXCEPT !.pc = "done", !.inst = dbPromise]]
    /\ UNCHANGED <<SQL, db, loaded, opened, dbPromise, created>>
    /\ DbFrame

NextOpen ==
    \/ \E fn \in {"run", "all"} : openDB(fn)
    \/ \E i \in 1..MaxCalls : initSqlJs(i)
    \/ \E i \in 1..MaxCalls : loadBytes(i)
    \/ \E i \in 1..MaxCalls : Statement(i)
    \/ getDB
    \/ \E i \in 1..MaxCalls : getDBResolved(i)

SpecOpen == InitAsync /\ [][NextOpen]_vars

(* ---------------------------------------------------------------------- *)
(* Serverless catch-all on better-sqlite3: auth, items and friends routes *)
(* ---------------------------------------------------------------------- *)
(* GET /auth/me *)
ServerlessMeRoute(token) ==
    LET S == getDb(sessions)
        u == authUserFromRequest(S, token)
    IN /\ sessions' = authSessions(S, token)
       /\ IF u = None
          THEN Reply("me", 401, <<>>)
          ELSE Reply("me", 200, <<[id |-> u]>>)
       /\ UNCHANGED <<users, nextUserId, nextToken, now, friendships,
                      nextFriendshipId, dms, nextDmId, reqs>>
       /\ UNCHANGED social
ServerlessMe(token) == ServerlessMeRoute(token) /\ ServerlessFrame

(* POST /auth/login *)
ServerlessLoginRoute(email, password) ==
    /\ nextToken <= MaxSessions
    /\ LET S == getDb(sessions)
           found == qUserByEmail(users, email)
       IN IF ~isValidEmail(email) \/ found = {}
             \/ (CHOOSE u \in found : TRUE).password_hash # password
          THEN /\ Reply("login", 401, <<>>)
               /\ sessions' = S
               /\ UNCHANGED nextToken
          ELSE LET u == CHOOSE x \in found : TRUE
               IN /\ sessions' = S \cup
                        {[token |-> nextToken, user_id |-> u.id,
                          expires_at |-> now + SESSION_TTL_MS]}
                  /\ nextToken' = nextToken + 1
                  /\ Reply("login", 200, <<[token |-> nextToken]>>)
    /\ UNCHANGED <<users, nextUserId, now, friendships, nextFriendshipId,
                   dms, nextDmId, reqs>>
    /\ UNCHANGED social
ServerlessLogin(email, password) == ServerlessLoginRoute(email, password) /\ ServerlessFrame

(* POST /items *)
ServerlessItemCreateRoute(token, title) ==
    LET S == getDb(sessions)
        u == authUserFromRequest(S, token)
    IN /\ nextItemId <= MaxItems
       /\ sessions' = authSessions(S, token)
       /\ IF u = None
          THEN Reply("items", 401, <<>>) /\ UNCHANGED <<items, nextItemId>>
          ELSE IF title = None
          THEN Reply("items", 400, <<>>) /\ UNCHANGED <<items, nextItemId>>
          ELSE /\ items' = items \cup {[id |-> nextItemId, user_id |-> u, done |-> 0]}
               /\ nextItemId' = nextItemId + 1
               /\ Reply("items", 201, <<>>)
       /\ UNCHANGED outsideSocial
       /\ UNCHANGED <<goals, nextGoalId, feed_posts, nextPostId,
                      feed_likes, nextLikeId, feed_comments, nextCommentId>>
ServerlessItemCreate(token, title) == ServerlessItemCreateRoute(token, title) /\ ServerlessFrame

(* POST /friends/invite *)
ServerlessInviteRoute(token, email) ==
    LET S == getDb(sessions)
        u == authUserFromRequest(S, token)
        found == qUserByEmail(users, email)
    IN /\ sessions' = authSessions(S, token)
       /\ IF u = None
          THEN Reply("invite", 401, <<>>)
               /\ UNCHANGED <<friendships, nextFriendshipId>>
          ELSE IF ~isValidEmail(email)
          THEN Reply("invite", 400, <<>>)
               /\ UNCHANGED <<friendships, nextFriendshipId>>
          ELSE IF found = {}
          THEN Reply("invite", 404, <<>>)
               /\ UNCHANGED <<friendships, nextFriendshipId>>
          ELSE LET other == (CHOOSE x \in found : TRUE).id
                   row == NewFriendship(u, other)
               IN IF other = u
                  THEN Reply("invite", 400, <<>>)
                       /\ UNCHANGED <<friendships, nextFriendshipId>>
                  ELSE IF ExistingFriendship(friendships, u, other) # {}
                  THEN Reply("invite", 409, <<>>)
                       /\ UNCHANGED <<friendships, nextFriendshipId>>
                  ELSE IF ~FriendshipConstraintsOk(friendships, users, row)
                  THEN Reply("invite", 400, <<>>)
                       /\ UNCHANGED <<friendships, nextFriendshipId>>
                  ELSE /\ friendships' = friendships \cup {row}
                       /\ nextFriendshipId' = nextFriendshipId + 1
                       /\ Reply("invite", 201, <<>>)
       /\ UNCHANGED <<users, nextUserId, nextToken, now, dms, nextDmId, reqs>>
       /\ UNCHANGED social
ServerlessInvite(token, email) ==
    /\ nextFriendshipId <= MaxFriendships
    /\ ServerlessInviteRoute(token, email)
    /\ ServerlessFrame

(* One serverless process over the database file of users 1 and 2; the    *)
(* requests are handled one at a time while the clock runs.               *)
NextBoth ==
    \/ \E t \in AsyncTokenInputs : ServerlessMe(t)
    \/ \E e \in 0..AsyncUsers, p \in PasswordInputs : ServerlessLogin(e, p)
    \/ \E t \in AsyncTokenInputs, x \in TextInputs : ServerlessItemCreate(t, x)
    \/ \E t \in AsyncTokenInputs, e \in UserIdInputs : ServerlessInvite(t, e)
    \/ \E t \in AsyncTokenInputs, v \in 0..AsyncUsers, x \in TextInputs :
          ServerlessDmSend(t, v, x)
    \/ \E t \in AsyncTokenInputs, x \in TextInputs : ServerlessFeedPost(t, x)
    \/ \E t \in AsyncTokenInputs : ServerlessAccountDelete(t)
    \/ Tick

SpecBoth == InitPush /\ [][NextBoth]_vars

(* ---------------------------------------------------------------------- *)
(* Properties                                                             *)
(* ---------------------------------------------------------------------- *)
Pair(f) == {f.user_a, f.user_b}
RowsOfPair(F, u, v) == {f \in F : Pair(f) = {u, v}}
UserOfEmail(email) == {x.id : x \in qUserByEmail(users, email)}
Exists(uid) == \E x \in users : x.id = uid

(* C1: in every reachable state the friendship store holds at most one row  *)
(* per unordered pair of users and every row has user_a < user_b, whatever  *)
(* sequence of register, invite, accept, cancel/remove and account-delete   *)
(* requests led there.                                                      *)
C1_CanonicalUniqueRows ==
    /\ \A f \in friendships : f.user_a < f.user_b
    /\ \A f, g \in friendships : Pair(f) = Pair(g) => f = g

(* A row asked for by the larger identifier is stored under the smaller one *)
(* first, beside another row, after an account was deleted and one created. *)
C1_Witness ==
    /\ \E f \in friendships : f.requested_by = f.user_b
    /\ Cardinality(friendships) = 2
    /\ nextUserId > SeedUsers + 1
    /\ Cardinality(users) <= SeedUsers

(* C3: while a row exists for the pair {u,v} (pending or accepted, whoever  *)
(* requested it), an invite from u to v and one from v to u both end with   *)
(* 409 Conflict and leave the friendship table as it was.                   *)
C3_InviteExistingPairConflicts ==
    [][\A t \in TokenInputs, e \in EmailInputs :
          LET u == AuthUser(t)
          IN (/\ resp'.op = "invite"
              /\ u # None
              /\ \E v \in UserOfEmail(e) : v # u /\ RowsOfPair(friendships, u, v) # {}
              /\ Invite(t, e))
             => (resp'.code = 409 /\ friendships' = friendships)]_vars

(* The party stored second repeats an invite on an accepted pair: Conflict. *)
C3_Witness ==
    /\ resp.op = "invite" /\ resp.code = 409
    /\ \E f \in friendships : f.status = "accepted" /\ f.requested_by = f.user_b
    /\ Cardinality(friendships) = 1

(* C5: accept succeeds with 200 whenever the row exists and the acting user *)
(* is user_a or user_b of it, the requester included; the row ends accepted *)
(* with its id, user_a, user_b and requested_by unchanged, and no other row *)
(* changes.                                                                 *)
C5_AnyPartyAccepts ==
    [][\A t \in TokenInputs, fid \in FriendshipIdInputs :
          LET u == AuthUser(t)
          IN \A row \in friendships :
               (/\ resp'.op = "accept"
                /\ u # None
                /\ row.id = fid
                /\ (row.user_a = u \/ row.user_b = u)
                /\ Accept(t, fid))
               => /\ resp'.code = 200
                  /\ friendships' = (friendships \ {row})
                                      \cup {[row EXCEPT !.status = "accepted"]}]_vars

(* The only row is accepted while the party that asked for it is the only   *)
(* party still holding a session: the requester accepted its own invite.    *)
C5_Witness ==
    /\ resp.op = "accept" /\ resp.code = 200
    /\ \E f \in friendships :
         /\ friendships = {f}
         /\ f.status = "accepted"
         /\ nextFriendshipId = f.id + 1
         /\ f.requested_by = f.user_a
         /\ f.user_b > SeedUsers

(* C6: accept and cancel/remove with a friendship id that names no row end  *)
(* with 404, and by an authenticated user who is neither user_a nor user_b  *)
(* of the row with 403; either way the friendship table is left as it was.  *)
C6_MissingOrForeignRowRefused ==
    [][\A t \in TokenInputs, fid \in FriendshipIdInputs \ {None} :
          LET u == AuthUser(t)
              rows == {f \in friendships : f.id = fid}
          IN (/\ resp'.op \in {"accept", "cancel"}
              /\ u # None
              /\ (Accept(t, fid) \/ Cancel(t, fid)))
             => /\ rows = {} => (resp'.code = 404 /\ friendships' = friendships)
                /\ (\E f \in rows : f.user_a # u /\ f.user_b # u)
                      => (resp'.code = 403 /\ friendships' = friendships)]_vars

(* A third user was refused on an accepted row, which is still there. *)
C6_Witness ==
    /\ resp.op \in {"accept", "cancel"} /\ resp.code = 403
    /\ \E f \in friendships : f.status = "accepted"

RowById(F, fid) == {f \in F : f.id = fid}
ActsAsParty(t, row) == AuthUser(t) # None /\ AuthUser(t) \in Pair(row)

(* C4 as amended: over every step, a friendship row changes only in its     *)
(* status, only from pending to accepted, and only through an accept by one *)
(* of its two parties (the requester included); a row becomes absent only   *)
(* through a cancel/remove by one of its two parties or through the account *)
(* deletion of one of its two parties.                                      *)
C4_TransitionsByParties ==
    [][\A row \in friendships :
         LET after == RowById(friendships', row.id)
         IN /\ after # {row} /\ after # {}
                 => /\ after = {[row EXCEPT !.status = "accepted"]}
                    /\ row.status = "pending"
                    /\ resp'.op = "accept"
                    /\ \E t \in TokenInputs : ActsAsParty(t, row) /\ Accept(t, row.id)
            /\ after = {}
                 => \/ /\ resp'.op = "cancel"
                       /\ \E t \in TokenInputs : ActsAsParty(t, row) /\ Cancel(t, row.id)
                    \/ /\ resp'.op = "account/delete"
                       /\ \E t \in TokenInputs : ActsAsParty(t, row) /\ AccountDelete(t)]_vars

(* C4 as claimed: the status changes only through an accept by the party    *)
(* that is not requested_by, and a row becomes absent only through a        *)
(* cancel/remove by one of its parties.                                     *)
C4_AsClaimed ==
    [][\A row \in friendships :
         LET after == RowById(friendships', row.id)
         IN /\ after # {row} /\ after # {}
                 => /\ after = {[row EXCEPT !.status = "accepted"]}
                    /\ row.status = "pending"
                    /\ resp'.op = "accept"
                    /\ \E t \in TokenInputs :
                         /\ ActsAsParty(t, row)
                         /\ AuthUser(t) # row.requested_by
                         /\ Accept(t, row.id)
            /\ after = {}
                 => /\ resp'.op = "cancel"
                    /\ \E t \in TokenInputs : ActsAsParty(t, row) /\ Cancel(t, row.id)]_vars

(* One row was accepted and is still there, another went with the account   *)
(* of one of its parties.                                                   *)
C4_Witness ==
    /\ resp.op = "account/delete" /\ resp.code = 200
    /\ nextFriendshipId = 3
    /\ \E f \in friendships : friendships = {f} /\ f.status = "accepted"

(* C7: a cancel/remove by either party deletes the row whether it is        *)
(* pending or accepted, and whenever no row exists for a pair of two users  *)
(* (so also right after the removal) an invite between them, in either      *)
(* direction, succeeds with 201 and adds one pending row requested by the   *)
(* inviter.                                                                 *)
C7_RemoveThenInviteAgain ==
    [][/\ \A t \in TokenInputs, row \in friendships :
            (resp'.op = "cancel" /\ ActsAsParty(t, row) /\ Cancel(t, row.id))
            => /\ resp'.code = 200
               /\ row.status \in {"pending", "accepted"}
               /\ friendships' = friendships \ {row}
               /\ RowsOfPair(friendships', row.user_a, row.user_b) = {}
       /\ \A t \in TokenInputs, e \in EmailInputs :
            LET u == AuthUser(t)
            IN \A v \in UserOfEmail(e) :
                 (/\ resp'.op = "invite"
                  /\ u # None /\ v # u
                  /\ RowsOfPair(friendships, u, v) = {}
                  /\ Invite(t, e))
                 => /\ resp'.code = 201
                    /\ \E f \in friendships' :
                         /\ friendships' = friendships \cup {f}
                         /\ f \notin friendships
                         /\ Pair(f) = {u, v}
                         /\ f.status = "pending"
                         /\ f.requested_by = u]_vars

(* The second row ever created is the only one, pending and asked for by    *)
(* the party stored second, with every seeded account still there: the      *)
(* first row was removed by a cancel/remove and an invite succeeded after.  *)
C7_Witness ==
    /\ resp.op = "invite" /\ resp.code = 201
    /\ \A i \in 1..SeedUsers : Exists(i)
    /\ \E f \in friendships :
         /\ friendships = {f}
         /\ f.id = 2
         /\ f.status = "pending"
         /\ f.requested_by = f.user_b

(* C8: areFriends(u,v) is symmetric and holds exactly while an accepted row *)
(* exists for the pair (not while there is no row or a pending one); it     *)
(* turns true only in the step of a successful accept, is true right after  *)
(* every successful accept of the pair's row and false right after every    *)
(* successful cancel/remove of it.                                          *)
C8_GateState ==
    \A u, v \in UserIds :
       /\ areFriends(u, v) = areFriends(v, u)
       /\ areFriends(u, v) <=> \E f \in RowsOfPair(friendships, u, v) : f.status = "accepted"

C8_GateSteps ==
    \A u, v \in UserIds :
       /\ (~areFriends(u, v) /\ areFriends(u, v)')
             => /\ resp'.op = "accept" /\ resp'.code = 200
                /\ \E f \in RowsOfPair(friendships, u, v) : f.status = "pending"
       /\ \A t \in TokenInputs, row \in RowsOfPair(friendships, u, v) :
             /\ (resp'.op = "accept" /\ ActsAsParty(t, row) /\ Accept(t, row.id))
                   => areFriends(u, v)'
             /\ (resp'.op = "cancel" /\ ActsAsParty(t, row) /\ Cancel(t, row.id))
                   => ~areFriends(u, v)'

C8_AreFriends == []C8_GateState /\ [][C8_GateSteps]_vars

(* A removal has just ended an accepted friendship; the only row left is a  *)
(* pending one.                                                             *)
C8_Witness ==
    /\ resp.op = "cancel" /\ resp.code = 200
    /\ nextFriendshipId = 3
    /\ \E f \in friendships : friendships = {f} /\ f.id = 2 /\ f.status = "pending"
    /\ \A u, v \in UserIds : ~areFriends(u, v)

(* C10 as claimed: a profile view of a well-formed target id by an          *)
(* authenticated user ends with 404 when no user has that id, with 403 when *)
(* the user exists without an accepted friendship, and with 200 only when   *)
(* the user exists and the friendship is accepted.                          *)
C10_AsClaimed ==
    [][\A t \in TokenInputs, id \in UserIdInputs \ {None} :
          LET u == AuthUser(t)
              accepted == \E f \in RowsOfPair(friendships, u, id) : f.status = "accepted"
          IN (resp'.op = "profile" /\ u # None /\ Profile(t, id))
             => /\ ~Exists(id) => resp'.code = 404
                /\ (Exists(id) /\ ~accepted) => resp'.code = 403
                /\ resp'.code = 200 <=> (Exists(id) /\ accepted)]_vars

(* C2 as claimed: when the requests in flight are invites for one unordered *)
(* pair of users, handled in any interleaving of their statements, one of   *)
(* them ends with 201 and every other one with 409 Conflict (all of them    *)
(* with 409 if the row was already there), and exactly one row exists for   *)
(* the pair.                                                                *)
InviteOfPair(r, u, v) ==
    /\ r.op = "invite" /\ r.pc = "done"
    /\ (r.u = u /\ r.other = v) \/ (r.u = v /\ r.other = u)

C2_AsClaimed ==
    \A u, v \in UserIds :
       (/\ u < v
        /\ Len(reqs) >= 2
        /\ \A i \in DOMAIN reqs : InviteOfPair(reqs[i], u, v))
       => /\ \A i \in DOMAIN reqs : reqs[i].code \in {201, 409}
          /\ Cardinality({i \in DOMAIN reqs : reqs[i].code = 201}) <= 1
          /\ Cardinality(RowsOfPair(friendships, u, v)) = 1

(* C9 as claimed: every direct message is inserted in a step in which an    *)
(* accepted row exists for the pair of its sender and receiver, in every    *)
(* interleaving with cancel/remove; and a send or a history read whose      *)
(* check finds no accepted row ends with 403, stores and returns nothing.   *)
C9_AsClaimed ==
    [][/\ \A d \in dms' \ dms :
            \E f \in RowsOfPair(friendships, d.sender_id, d.receiver_id) :
               f.status = "accepted"
       /\ \A i \in DOMAIN reqs :
            (/\ reqs[i].op \in {"dm", "dm/send"} /\ reqs[i].pc = "find"
             /\ DmFind(i)
             /\ ~\E f \in RowsOfPair(friendships, reqs[i].u, reqs[i].arg) :
                   f.status = "accepted")
            => /\ reqs'[i].pc = "done" /\ reqs'[i].code = 403
               /\ reqs'[i].body = <<>>
               /\ dms' = dms]_vars

TablesOtherThanFriendships ==
    <<users, sessions, dms, items, goals, feed_posts, feed_likes, feed_comments>>

(* C12: an invite by an authenticated requester r that names an existing    *)
(* user t # r while no row exists for {r,t} answers 201 and adds exactly    *)
(* the row (min(r,t), max(r,t), pending, requested_by = r); every other     *)
(* friendship row and every other table stay as they were.                  *)
C12_InviteInsertsOneRow ==
    [][\A t \in TokenInputs, e \in EmailInputs :
          LET r == AuthUser(t)
          IN (/\ resp'.op = "invite"
              /\ r # None
              /\ \E v \in UserOfEmail(e) : v # r /\ RowsOfPair(friendships, r, v) = {}
              /\ Invite(t, e))
             => /\ resp'.code = 201
                /\ \E v \in UserOfEmail(e), row \in friendships' :
                     /\ row \notin friendships
                     /\ friendships' = friendships \cup {row}
                     /\ row.user_a = Min(r, v) /\ row.user_b = Max(r, v)
                     /\ row.status = "pending" /\ row.requested_by = r
                /\ UNCHANGED TablesOtherThanFriendships]_vars

(* A second pair was invited, by its larger party, beside an earlier row.   *)
C12_Witness ==
    /\ resp.op = "invite" /\ resp.code = 201
    /\ Cardinality(friendships) = 2
    /\ \E f \in friendships :
         f.id = 2 /\ f.status = "pending" /\ f.requested_by = f.user_b

(* C13: an authenticated invite ends with 400 for a malformed email, with   *)
(* 404 for a well-formed email that no user has (so the format check comes  *)
(* first) and with 400 when the email is the requester's own (before any    *)
(* 409); in each of these cases the friendship table is unchanged.          *)
C13_InviteRefusals ==
    [][\A t \in TokenInputs, e \in EmailInputs :
          LET r == AuthUser(t)
          IN (resp'.op = "invite" /\ r # None /\ Invite(t, e))
             => /\ ~(e \in Emails) => (resp'.code = 400 /\ friendships' = friendships)
                /\ (e \in Emails /\ UserOfEmail(e) = {})
                      => (resp'.code = 404 /\ friendships' = friendships)
                /\ UserOfEmail(e) = {r}
                      => (resp'.code = 400 /\ friendships' = friendships)
                /\ resp'.code = 409
                      => \E v \in UserOfEmail(e) : v # r /\ e \in Emails]_vars

(* An unknown address was refused with 404 while the requester has a row.   *)
C13_Witness ==
    /\ resp.op = "invite" /\ resp.code = 404
    /\ friendships # {}
    /\ Cardinality(users) < SeedUsers

(* C16: in every reachable state requested_by of each friendship row is its *)
(* user_a or its user_b, and a row that stays in the table keeps its        *)
(* requested_by at every step.                                              *)
C16_RequesterIsParty == \A f \in friendships : f.requested_by \in Pair(f)

C16_RequesterKept ==
    \A f \in friendships, g \in friendships' :
       f.id = g.id => g.requested_by = f.requested_by

C16_RequestedBy == []C16_RequesterIsParty /\ [][C16_RequesterKept]_vars

(* A row asked for by its second party has been accepted by its first.      *)
C16_Witness ==
    /\ resp.op = "accept" /\ resp.code = 200
    /\ \E f \in friendships :
         f.status = "accepted" /\ f.requested_by = f.user_b /\ f.user_a > 1

(* C17: for every registered user u and every other user identifier v,      *)
(* canonicalPair(u,v) equals canonicalPair(v,u), holds exactly u and v, and *)
(* has its smaller component first.                                         *)
C17_CanonicalPair ==
    \A u \in {x.id : x \in users}, v \in UserIds :
       u # v => /\ canonicalPair(u, v) = canonicalPair(v, u)
                /\ {canonicalPair(u, v)[1], canonicalPair(u, v)[2]} = {u, v}
                /\ canonicalPair(u, v)[1] < canonicalPair(u, v)[2]

(* The function has been applied to (smaller, larger) and (larger, smaller):*)
(* one row was asked for by its first party, another by its second.         *)
C17_Witness ==
    /\ \E f \in friendships : f.requested_by = f.user_a
    /\ \E f \in friendships : f.requested_by = f.user_b

(* list(u): what GET /friends answers to u in the current state *)
ListOf(u) == MapFriends(qListFriendsRaw(friendships, users, u), u)
EntriesFor(list, fid) == {k \in DOMAIN list : list[k].id = fid}
RowsTouching(u) == {f \in friendships : u \in Pair(f)}

(* C14: GET /friends by u answers one entry per friendship row in which u   *)
(* is user_a or user_b and nothing else; the entry's friend_id is the other *)
(* party of the row, never u, and its can_accept is (status = pending and   *)
(* requested_by # u).  Hence in every state a pending row has can_accept    *)
(* true for exactly one of its two parties and an accepted row for neither. *)
C14_ListStep ==
    \A t \in TokenInputs :
       LET u == AuthUser(t)
           list == resp'.body
       IN (resp'.op = "friends" /\ u # None /\ Friends(t))
          => /\ resp'.code = 200
             /\ {list[k].id : k \in DOMAIN list} = {f.id : f \in RowsTouching(u)}
             /\ Len(list) = Cardinality(RowsTouching(u))
             /\ \A k \in DOMAIN list : \A f \in RowsTouching(u) :
                  f.id = list[k].id
                  => /\ list[k].friend_id # u
                     /\ Pair(f) = {u, list[k].friend_id}
                     /\ list[k].status = f.status
                     /\ list[k].can_accept
                          = (f.status = "pending" /\ f.requested_by # u)

C14_CanAcceptOnce ==
    \A f \in friendships :
       Cardinality({w \in Pair(f) :
                      \E k \in EntriesFor(ListOf(w), f.id) : ListOf(w)[k].can_accept})
         = IF f.status = "pending" THEN 1 ELSE 0

C14_FriendsList == []C14_CanAcceptOnce /\ [][C14_ListStep]_vars

(* A list of two pending rows was answered: one the viewer can accept, one  *)
(* the viewer asked for.                                                    *)
C14_Witness ==
    /\ resp.op = "friends" /\ resp.code = 200
    /\ Len(resp.body) = 2
    /\ \E k \in DOMAIN resp.body : resp.body[k].can_accept
    /\ \E k \in DOMAIN resp.body :
         resp.body[k].status = "pending" /\ ~resp.body[k].can_accept

(* C15: a successful accept leaves the row accepted, and as long as an      *)
(* accepted row for {u,v} is in the table, list(u) and list(v) each hold    *)
(* exactly one entry for that pair, with the row's id and status accepted;  *)
(* an accepted row stays accepted until it is removed.                      *)
C15_BothListsAccepted ==
    \A f \in friendships :
       f.status = "accepted"
       => \A w \in Pair(f) :
            LET list == ListOf(w)
                mine == {k \in DOMAIN list : {w, list[k].friend_id} = Pair(f)}
            IN /\ Cardinality(mine) = 1
               /\ \A k \in mine : list[k].id = f.id /\ list[k].status = "accepted"

C15_AcceptStep ==
    /\ \A t \in TokenInputs, fid \in FriendshipIdInputs :
          (resp'.op = "accept" /\ resp'.code = 200 /\ Accept(t, fid))
          => \E f \in friendships' : f.id = fid /\ f.status = "accepted"
    /\ \A f \in friendships :
          f.status = "accepted"
          => \A g \in friendships' : g.id = f.id => g = f

C15_AcceptedInBothLists == []C15_BothListsAccepted /\ [][C15_AcceptStep]_vars

(* After an accept, a party listed its friends and got the accepted entry   *)
(* beside a pending one.                                                    *)
C15_Witness ==
    /\ resp.op = "friends" /\ resp.code = 200
    /\ \E k \in DOMAIN resp.body :
         resp.body[k].status = "accepted" /\ ~resp.body[k].can_accept
    /\ \E k \in DOMAIN resp.body : resp.body[k].status = "pending"

(* C18 as claimed: whichever endpoint resolves the session (the bearer      *)
(* routes and GET /events), a request presenting the token of an expired    *)
(* session is answered as unauthenticated and the expired row is gone after *)
(* the request.                                                             *)
C18_AsClaimed ==
    [][\A t \in TokenInputs :
          (/\ resp'.op \in {"me", "logout", "account/delete", "events"}
           /\ \E s \in sessions : s.token = t /\ Expired(s)
           /\ Me(t) \/ Logout(t) \/ AccountDelete(t) \/ Events(t))
          => /\ resp'.code = 401
             /\ \A s \in sessions' : s.token # t]_vars

(* C19: a logout with a live token t answers 200, deletes exactly the row   *)
(* of t, after which t authenticates nothing, and leaves what every other   *)
(* token authenticates as it was.  A live session stops existing only by a  *)
(* logout with its own token or by the deletion of its user's account, is   *)
(* never modified, and stops authenticating otherwise only as time passes.  *)
C19_LogoutStep ==
    \A t \in TokenInputs :
       (resp'.op = "logout" /\ AuthUser(t) # None /\ Logout(t))
       => /\ resp'.code = 200
          /\ sessions' = {s \in sessions : s.token # t}
          /\ Cardinality(sessions') = Cardinality(sessions) - 1
          /\ AuthUser(t)' = None
          /\ \A o \in TokenInputs \ {t} : AuthUser(o)' = AuthUser(o)

OwnLogout(s) == resp'.op = "logout" /\ Logout(s.token)
OwnerDeleted(s) ==
    /\ resp'.op = "account/delete"
    /\ \E t \in TokenInputs : AuthUser(t) = s.user_id /\ AccountDelete(t)

C19_SessionKept(s) ==
    /\ s \in sessions' => (AuthUser(s.token)' = s.user_id \/ now' # now)
    /\ \A x \in sessions' : x.token = s.token => x = s

C19_SessionEnds ==
    \A s \in sessions :
       ~Expired(s) => /\ s \notin sessions' => (OwnLogout(s) \/ OwnerDeleted(s))
                      /\ C19_SessionKept(s)

C19_Sessions == [][C19_LogoutStep /\ C19_SessionEnds]_vars

(* C19 as claimed: a live session ends only by its own logout or expiry.    *)
C19_AsClaimed ==
    [][C19_LogoutStep
       /\ \A s \in sessions :
            ~Expired(s) => /\ s \notin sessions' => OwnLogout(s)
                           /\ C19_SessionKept(s)]_vars

(* A user logged in a second time and then logged out the first session:    *)
(* the second one is still there and live.                                  *)
C19_Witness ==
    /\ resp.op = "logout" /\ resp.code = 200
    /\ now = 0
    /\ \E s \in sessions :
         /\ s.token > SeedUsers /\ ~Expired(s)
         /\ AuthUser(s.token) = s.user_id
         /\ \A x \in sessions : x.token # s.user_id

(* What user u may learn of the goals table: its own goals and the public   *)
(* ones of the others.                                                      *)
Scrub(G, u) == {g \in G : g.user_id = u \/ g.is_public = 1}
IsGoalPost(view) == view.content.prefix = "New goal: "
(* the goal behind a "New goal" post shown or pushed in the next state *)
PublishedGoalOf(view) ==
    {g \in goals' : /\ g.is_public = 1 /\ g.title = view.content.text
                    /\ g.user_id = view.user_id
                    /\ \E q \in feed_posts' : q.id = view.id /\ q.goal_id = g.id}

C11_OwnList ==
    resp'.op = "goals"
    => \A t \in TokenInputs :
         LET u == AuthUser(t)
         IN (u # None /\ GoalsList(t))
            => /\ resp'.body = qListGoals(Scrub(goals, u), u)
               /\ \A k \in DOMAIN resp'.body :
                    \E g \in goals : g.id = resp'.body[k].id /\ g.user_id = u

C11_ProfileView ==
    resp'.op = "profile"
    => IF resp'.code = 200
       THEN LET v == resp'.body[1].id
            IN \A t \in TokenInputs :
                 LET u == AuthUser(t)
                 IN (u # None /\ Profile(t, v))
                    => /\ areFriends(u, v)
                       /\ resp'.body[1].goals = PublicGoals(Scrub(goals, u), v)
                       /\ \A k \in DOMAIN resp'.body[1].goals :
                            \E g \in goals : /\ g.id = resp'.body[1].goals[k].id
                                             /\ g.user_id = v /\ g.is_public = 1
       ELSE resp'.body = <<>>

C11_FeedShowsPublishedOnly ==
    /\ resp'.op = "feed"
         => \A k \in DOMAIN resp'.body :
              IsGoalPost(resp'.body[k]) => PublishedGoalOf(resp'.body[k]) # {}
    /\ (pushed' # pushed /\ pushed'.type = "feed:new")
         => \A k \in DOMAIN pushed'.data :
              IsGoalPost(pushed'.data[k]) => PublishedGoalOf(pushed'.data[k]) # {}

(* C11: a goal row of v reaches another user u only in the answer to a      *)
(* profile view of v made by u while they have an accepted friendship, and  *)
(* only if the goal is public; GET /goals answers the caller's own goals.   *)
(* Each answer equals the one computed after removing the private goals of  *)
(* all other users, so those never influence what u receives.  Publishing   *)
(* a goal also puts its title in a "New goal" feed post, which GET /feed    *)
(* and the feed:new event deliver to every user, friend or not; such a post *)
(* always stands for a goal that is public.                                 *)
C11_GoalVisibility ==
    [][C11_FeedShowsPublishedOnly /\ C11_OwnList /\ C11_ProfileView]_vars

(* C11 as claimed: besides the above, nothing of a goal of v reaches a user *)
(* u # v outside a friend's profile view: no feed answer to u and no event  *)
(* written to a stream of u carries the "New goal" post of another user.    *)
C11_AsClaimed ==
    [][/\ C11_OwnList /\ C11_ProfileView
       /\ resp'.op = "feed"
            => \A t \in TokenInputs, l \in LimitInputs :
                 (AuthUser(t) # None /\ FeedList(t, l))
                 => \A k \in DOMAIN resp'.body :
                      IsGoalPost(resp'.body[k]) => resp'.body[k].user_id = AuthUser(t)
       /\ (pushed' # pushed /\ pushed'.type = "feed:new")
            => \A k \in DOMAIN pushed'.data : \A c \in sseClients :
                 (c.id \in pushed'.to /\ IsGoalPost(pushed'.data[k]))
                 => c.user_id = pushed'.data[k].user_id]_vars

(* A friend's profile view answered the one public goal of a user who also  *)
(* has a private goal.                                                      *)
C11_Witness ==
    /\ resp.op = "profile" /\ resp.code = 200
    /\ Len(resp.body[1].goals) = 1
    /\ \E g \in goals : g.user_id = resp.body[1].id /\ g.is_public = 0

PostsOf(P, u) == {p.id : p \in {q \in P : q.user_id = u}}
GoalsOf(G, u) == {g.id : g \in {x \in G : x.user_id = u}}

(* Every row points at users and posts that exist. *)
C20_NoDanglingRows ==
    /\ \A x \in sessions : Exists(x.user_id)
    /\ \A x \in items : Exists(x.user_id)
    /\ \A x \in goals : Exists(x.user_id)
    /\ \A x \in feed_posts : Exists(x.user_id)
    /\ \A x \in feed_likes : Exists(x.user_id) /\ PostExists(feed_posts, x.post_id)
    /\ \A x \in feed_comments : Exists(x.user_id) /\ PostExists(feed_posts, x.post_id)
    /\ \A x \in dms : Exists(x.sender_id) /\ Exists(x.receiver_id)
    /\ \A x \in friendships :
         Exists(x.user_a) /\ Exists(x.user_b) /\ Exists(x.requested_by)

C20_DeleteStep ==
    resp'.op = "account/delete"
    => \A t \in TokenInputs :
         LET u == AuthUser(t)
         IN (u # None /\ AccountDelete(t))
            => /\ resp'.code = 200
               /\ users' = {x \in users : x.id # u}
               /\ sessions' = {x \in sessions : x.user_id # u}
               /\ items' = {x \in items : x.user_id # u}
               /\ goals' = {x \in goals : x.user_id # u}
               /\ feed_posts' = {x \in feed_posts : x.user_id # u}
               /\ feed_likes' = {x \in feed_likes :
                                   x.user_id # u /\ x.post_id \notin PostsOf(feed_posts, u)}
               /\ feed_comments' = {x \in feed_comments :
                                   x.user_id # u /\ x.post_id \notin PostsOf(feed_posts, u)}
               /\ dms' = {x \in dms : x.sender_id # u /\ x.receiver_id # u}
               /\ friendships' = {x \in friendships : u \notin Pair(x)}
               /\ \A o \in TokenInputs : AuthUser(o) = u => AuthUser(o)' = None
               /\ \A o \in TokenInputs : AuthUser(o) # u => AuthUser(o)' = AuthUser(o)
               /\ \A v \in UserIds \ {u} :
                    /\ ~areFriends(u, v)' /\ ~areFriends(v, u)'
                    /\ \A k \in DOMAIN ListOf(v)' : ListOf(v)'[k].friend_id # u

(* C20: a successful account deletion of u removes the user row and exactly *)
(* the rows that reference u: its sessions, items, goals, feed posts, the   *)
(* likes and comments made by u or attached to a post of u, the direct      *)
(* messages sent or received by u and the friendship rows of u; every other *)
(* row is unchanged.  Afterwards no token of u authenticates, areFriends    *)
(* (u,v) is false and list(v) has no entry for u, for every other user v;   *)
(* and in every reachable state each row points at existing users and       *)
(* posts.                                                                   *)
C20_AccountDeletion == []C20_NoDanglingRows /\ [][C20_DeleteStep]_vars

(* The author of a liked and commented post deleted the account: the like   *)
(* and the comment of the other user went with the post, while that user's  *)
(* own post and the like on it are still there.                             *)
C20_Witness ==
    /\ resp.op = "account/delete" /\ resp.code = 200
    /\ Cardinality(users) = SeedUsers - 1
    /\ nextCommentId = 2 /\ feed_comments = {}
    /\ nextDmId = 2 /\ dms = {}
    /\ Cardinality(feed_posts) = 1 /\ Cardinality(feed_likes) = 1
    /\ items = {} /\ goals = {} /\ friendships = {}

(* C21 as claimed: every request, with any body and any referenced id,     *)
(* ends with a response or an error status written by its handler, never   *)
(* with an uncaught failure (recorded here as status 0: nothing was sent). *)
C21_AsClaimed == resp.op # "none" => resp.code # 0

(* The event written in a step, if the step wrote one: the streams keep   *)
(* the last event, so a change of it is a write.                          *)
Written(type) == pushed' # pushed /\ pushed'.type = type

(* C22: whenever a feed:new event is written, the post it describes is in *)
(* feed_posts after the same request and is the first row GET /feed       *)
(* returns, with the default limit too; whenever a dm:new event is        *)
(* written, a message of its sender is in dms and GET /dm returns it to   *)
(* the receiver and to the sender.  No event describes an item that is    *)
(* not stored.                                                            *)
C22_PushedIsStored ==
    [][/\ Written("feed:new")
            => LET e == pushed'.data[1]
                   feed == qListFeed(feed_posts, users, feed_likes, feed_comments,
                                     clamp(None, 1, 50))'
               IN /\ \E p \in feed_posts' :
                       PostView(p, feed_likes', feed_comments') = e
                  /\ Len(feed) >= 1 /\ feed[1] = e
       /\ Written("dm:new")
            => LET e == pushed'.data[1]
               IN \E d \in dms' :
                    /\ d.sender_id = e.sender_id
                    /\ LET toReceiver == MapDm(qListDM(dms', d.receiver_id, d.sender_id,
                                                       clamp(None, 1, 100),
                                                       clamp(None, 0, 1000000)),
                                               d.receiver_id)
                           toSender == MapDm(qListDM(dms', d.sender_id, d.receiver_id,
                                                     clamp(None, 1, 100),
                                                     clamp(None, 0, 1000000)),
                                             d.sender_id)
                       IN /\ \E k \in DOMAIN toReceiver :
                               toReceiver[k].id = d.id /\ ~toReceiver[k].mine
                          /\ \E k \in DOMAIN toSender :
                               toSender[k].id = d.id /\ toSender[k].mine]_vars

(* A message was sent while its sender and its receiver each had a stream  *)
(* open: dm:new went to both, and the message is stored.                   *)
C22_Witness ==
    /\ resp.op = "dm/send" /\ resp.code = 201
    /\ pushed.type = "dm:new" /\ Cardinality(pushed.to) = 2
    /\ dms # {}

LikePairs(L) == {<<l.post_id, l.user_id>> : l \in L}
LikesOutside(L, pid, uid) == {l \in L : ~(l.post_id = pid /\ l.user_id = uid)}

(* The toggle of the like route, as a function of the table. *)
Toggled(L, P, id, pid, uid) ==
    IF qUserLikedPost(L, pid, uid) THEN qUnlikePost(L, pid, uid)
    ELSE qLikePost(L, P, id, pid, uid)

C23_OneLikePerPostUser ==
    \A a, b \in feed_likes :
       (a.post_id = b.post_id /\ a.user_id = b.user_id) => a = b

C23_TwoTogglesRestore ==
    \A p \in feed_posts : \A u \in users :
       LikePairs(Toggled(Toggled(feed_likes, feed_posts, nextLikeId, p.id, u.id),
                         feed_posts, nextLikeId + 1, p.id, u.id))
         = LikePairs(feed_likes)

C23_ToggleStep ==
    /\ (resp'.op = "feed/like" /\ resp'.code = 200 /\ reqs' = reqs)
         => \A t \in AsyncTokenInputs :
              LET u == AuthUser(t)
                  q == pushed'.data[1].post_id
              IN (u # None /\ Like(t, q))
                 => /\ LikesOutside(feed_likes', q, u) = LikesOutside(feed_likes, q, u)
                    /\ qUserLikedPost(feed_likes', q, u) = ~qUserLikedPost(feed_likes, q, u)
                    /\ resp'.body[1].liked = qUserLikedPost(feed_likes', q, u)
                    /\ resp'.body[1].like_count
                         = Cardinality({l \in feed_likes' : l.post_id = q})
    /\ \A i \in DOMAIN reqs :
         /\ LikeToggle(i)
              => LikesOutside(feed_likes', reqs[i].arg, reqs[i].u)
                   = LikesOutside(feed_likes, reqs[i].arg, reqs[i].u)
         /\ (LikeCountRows(i) /\ resp'.code = 200)
              => resp'.body[1].like_count
                   = Cardinality({l \in feed_likes' : l.post_id = reqs[i].arg})

(* C23: in every reachable state there is at most one like row per (post,  *)
(* user), also when like toggles of the same user on the same post run     *)
(* statement by statement in any interleaving; a like toggle changes no    *)
(* like row but the one of its caller on its post, and, handled in one     *)
(* step, flips it, so two consecutive toggles by a user leave the same     *)
(* (post, user) pairs liked as before; the like_count it returns is the    *)
(* number of like rows of the post.                                        *)
C23_Likes ==
    /\ [](C23_OneLikePerPostUser /\ C23_TwoTogglesRestore)
    /\ [][C23_ToggleStep]_vars

(* Two toggles of the same user on the same post ran interleaved: both     *)
(* found no like, both inserted, and one row is there.                     *)
C23_Witness ==
    /\ Len(reqs) = 2
    /\ \A i \in DOMAIN reqs :
         /\ reqs[i].op = "feed/like" /\ reqs[i].pc = "done" /\ reqs[i].code = 200
         /\ reqs[i].body[1].liked
    /\ reqs[1].u = reqs[2].u /\ reqs[1].arg = reqs[2].arg
    /\ Cardinality(feed_likes) = 1

(* C24: a goal is private (is_public = 0) when it is created; in every     *)
(* step a goal keeps its owner and title, its flag never goes from 1 to 0,  *)
(* and it goes from 0 to 1 only in a publish request for that goal made     *)
(* with a token of its owner.                                               *)
C24_PublishOneWay ==
    [][goals' # goals
         => /\ \A n \in goals' :
                 (\A g \in goals : g.id # n.id)
                 => n.is_public = 0 /\ resp'.op = "goals/create"
            /\ \A g \in goals : \A n \in goals' :
                 n.id = g.id
                 => /\ n.user_id = g.user_id /\ n.title = g.title
                    /\ n.is_public >= g.is_public
                    /\ n.is_public # g.is_public
                         => /\ resp'.op = "goals/publish" /\ resp'.code = 200
                            /\ \E t \in TokenInputs :
                                 AuthUser(t) = g.user_id /\ GoalPublish(t, g.id)]_vars

(* A publish request was answered while one goal is public and another one *)
(* of a different owner is still private.                                  *)
C24_Witness ==
    /\ resp.op = "goals/publish" /\ resp.code = 200
    /\ \E g, h \in goals :
         g.is_public = 1 /\ h.is_public = 0 /\ g.user_id # h.user_id

(* C25 as claimed: a 'New goal' feed post is created only when a publish   *)
(* request moves the goal from private to public, so each goal has at most *)
(* one such feed post.                                                     *)
C25_AsClaimed ==
    \A g \in goals :
       Cardinality({p \in feed_posts :
                      p.goal_id = g.id /\ p.content.prefix = "New goal: "}) <= 1

ItemsOf(I, u) == {i \in I : i.user_id = u}

C26_ItemStep ==
    /\ (resp'.op = "items/list" /\ resp'.code = 200)
         => \A t \in TokenInputs :
              (AuthUser(t) # None /\ ItemsList(t))
              => /\ {resp'.body[k].id : k \in DOMAIN resp'.body}
                      = {i.id : i \in ItemsOf(items, AuthUser(t))}
                 /\ Len(resp'.body) = Cardinality(ItemsOf(items, AuthUser(t)))
                 /\ items' = items
    /\ (resp'.op = "items" /\ resp'.code = 201)
         => \A t \in TokenInputs, x \in TextInputs :
              ItemCreate(t, x)
              => /\ items \subseteq items'
                 /\ \E n \in items' : /\ items' \ items = {n}
                                      /\ n.user_id = AuthUser(t)
                                      /\ \A i \in items : i.id # n.id
    /\ resp'.op \in {"items/toggle", "items/delete"}
         => \A t \in TokenInputs, id \in ItemIdInputs :
              LET u == AuthUser(t)
              IN (ItemToggle(t, id) \/ ItemDelete(t, id))
                 => /\ \A i \in items : (i.user_id # u \/ i.id # id) => i \in items'
                    /\ \A n \in items' : (n.user_id # u \/ n.id # id) => n \in items
                    /\ (\A i \in items : i.id = id => i.user_id # u) => items' = items

(* C26: GET /items returns exactly the items whose user_id is the caller;  *)
(* a created item is a new row owned by the caller and no other row        *)
(* changes; a toggle or delete by user u with an item id changes no row    *)
(* but the one with that id owned by u, and changes nothing at all when    *)
(* that id is owned by another user or does not exist.                     *)
C26_ItemsOwnerScoped == [][C26_ItemStep]_vars

(* Every item ever created is still there and two users own items, yet a   *)
(* delete was answered 200: it named an item of another user.              *)
C26_Witness ==
    /\ resp.op = "items/delete" /\ resp.code = 200
    /\ nextItemId = MaxItems + 1 /\ Cardinality(items) = MaxItems
    /\ \E i, j \in items : i.user_id # j.user_id

(* A request to one of the routes that resolve a session, made with token; *)
(* the route is told by the response it wrote.                              *)
SessionRoute(token) ==
    LET op == resp'.op
    IN \/ op = "me" /\ Me(token)
       \/ op = "logout" /\ Logout(token)
       \/ op = "account/delete" /\ AccountDelete(token)
       \/ op = "events" /\ Events(token)
       \/ op = "prefs" /\ PrefsGet(token)
       \/ op = "prefs/set" /\ PrefsSet(token)
       \/ op = "photo" /\ \E x \in TextInputs : Photo(token, x)
       \/ op = "items/list" /\ ItemsList(token)
       \/ op = "items" /\ \E x \in TextInputs : ItemCreate(token, x)
       \/ op = "items/toggle" /\ \E i \in ItemIdInputs : ItemToggle(token, i)
       \/ op = "items/delete" /\ \E i \in ItemIdInputs : ItemDelete(token, i)
       \/ op = "friends" /\ Friends(token)
       \/ op = "invite" /\ \E e \in EmailInputs : Invite(token, e)
       \/ op = "accept" /\ \E f \in FriendshipIdInputs : Accept(token, f)
       \/ op = "cancel" /\ \E f \in FriendshipIdInputs : Cancel(token, f)
       \/ op = "goals" /\ GoalsList(token)
       \/ op = "goals/create" /\ \E x \in TextInputs : GoalCreate(token, x)
       \/ op = "goals/publish" /\ \E g \in GoalIdInputs : GoalPublish(token, g)
       \/ op = "feed" /\ \E l \in LimitInputs : FeedList(token, l)
       \/ op = "feed/comments" /\ \E q \in PostIdInputs : FeedComments(token, q)
       \/ op = "feed/create" /\ \E x \in TextInputs : FeedPost(token, x)
       \/ op = "feed/like" /\ \E q \in PostIdInputs : Like(token, q)
       \/ op = "feed/comment"
             /\ \E q \in PostIdInputs, x \in TextInputs : Comment(token, q, x)
       \/ op = "dm" /\ \E v \in UserIdInputs, l \in DmLimitInputs, o \in OffsetInputs :
                          DmList(token, v, l, o)
       \/ op = "dm/send"
             /\ \E v \in UserIdInputs, x \in TextInputs : DmSend(token, v, x)
       \/ op = "profile" /\ \E v \in UserIdInputs : Profile(token, v)

Tables == <<users, nextUserId, friendships, nextFriendshipId, dms, nextDmId, social>>

(* C27: a request to any route that resolves a session, made with no       *)
(* token, an unknown token, a logged-out token, an expired token or the    *)
(* token of a deleted account, is answered 401, writes nothing to the      *)
(* event streams and changes no table; the only row that may go is the     *)
(* expired session row of the presented token.                             *)
C27_SessionRequired ==
    [][resp'.code # 401 \/ Tables' # Tables \/ sessions' # sessions \/ sse' # sse
         => \A t \in TokenInputs :
              (Stale(t) /\ SessionRoute(t))
              => /\ resp'.code = 401
                 /\ Tables' = Tables /\ sse' = sse
                 /\ sessions' \subseteq sessions
                 /\ \A s \in sessions \ sessions' : s.token = t /\ Expired(s)]_vars

(* Every seeded session has expired and one of the rows has been deleted;  *)
(* a send of a direct message was refused with 401 and the tables still    *)
(* hold the users, their friendship, item, goal and post.                  *)
C27_Witness ==
    /\ resp.op = "dm/send" /\ resp.code = 401
    /\ now = MaxTime /\ nextToken = SeedUsers + 1
    /\ Cardinality(sessions) = SeedUsers - 1
    /\ Cardinality(users) = SeedUsers
    /\ friendships # {} /\ items # {} /\ goals # {} /\ feed_posts # {}

IdsIn(seq) == {seq[k].id : k \in DOMAIN seq}
PartsOf(u) == splitFriends(ListOf(u), u)

(* C28: for every viewer u, splitFriends puts each row of list(u) in       *)
(* exactly one of incoming, outgoing, accepted and keeps every row; the    *)
(* incoming rows are those with can_accept = true; a pending row is        *)
(* incoming for exactly one of its two parties and outgoing for the other, *)
(* and an accepted row is in accepted for both.                            *)
C28_SplitFriends ==
    /\ \A x \in users :
         LET u == x.id
             list == ListOf(u)
             parts == PartsOf(u)
         IN /\ Len(parts.incoming) + Len(parts.outgoing) + Len(parts.accepted)
                 = Len(list)
            /\ IdsIn(parts.incoming) \cup IdsIn(parts.outgoing) \cup IdsIn(parts.accepted)
                 = IdsIn(list)
            /\ IdsIn(parts.incoming) \cap IdsIn(parts.outgoing) = {}
            /\ IdsIn(parts.incoming) \cap IdsIn(parts.accepted) = {}
            /\ IdsIn(parts.outgoing) \cap IdsIn(parts.accepted) = {}
            /\ \A k \in DOMAIN list :
                 list[k].can_accept <=> list[k].id \in IdsIn(parts.incoming)
    /\ \A f \in friendships :
         LET a == f.user_a
             b == f.user_b
         IN /\ f.status = "pending"
                 => /\ (f.id \in IdsIn(PartsOf(a).incoming))
                         # (f.id \in IdsIn(PartsOf(b).incoming))
                    /\ f.id \in IdsIn(PartsOf(a).incoming)
                         <=> f.id \in IdsIn(PartsOf(b).outgoing)
                    /\ f.id \in IdsIn(PartsOf(b).incoming)
                         <=> f.id \in IdsIn(PartsOf(a).outgoing)
            /\ f.status = "accepted"
                 => /\ f.id \in IdsIn(PartsOf(a).accepted)
                    /\ f.id \in IdsIn(PartsOf(b).accepted)

(* GET /friends answered a user who has an invitation to answer and an     *)
(* accepted friend: the page shows one row under each heading.             *)
C28_Witness ==
    /\ resp.op = "friends" /\ resp.code = 200
    /\ \E x \in users :
         /\ resp.body = ListOf(x.id)
         /\ Len(splitFriends(resp.body, x.id).incoming) = 1
         /\ Len(splitFriends(resp.body, x.id).accepted) = 1

(* C29: a dm:new event for a message from s to r is written only to        *)
(* streams registered under user id s or user id r, and to every such      *)
(* stream that is open; no stream of another user receives it.             *)
C29_DmPushOnlyToParties ==
    [][Written("dm:new")
         => \E d \in dms' \ dms :
              /\ pushed'.data[1].sender_id = d.sender_id
              /\ \A c \in sseClients :
                   c.id \in pushed'.to
                     <=> c.user_id \in {d.sender_id, d.receiver_id}
              /\ pushed'.to \subseteq {c.id : c \in sseClients}]_vars

(* A message was sent while its receiver and a third user were listening:   *)
(* the event went to one stream only.                                       *)
C29_Witness ==
    /\ resp.op = "dm/send" /\ resp.code = 201
    /\ pushed.type = "dm:new" /\ Cardinality(pushed.to) = 1
    /\ \E d \in dms, c, o \in sseClients :
         /\ c.id \in pushed.to /\ c.user_id = d.receiver_id
         /\ o.id \notin pushed.to /\ o.user_id \notin {d.sender_id, d.receiver_id}

LiveSessionOf(uid) ==
    \E s \in sessions : s.user_id = uid /\ ~Expired(s) /\ Exists(uid)

(* C30 as claimed: a stream receives dm:new and feed:new only while the     *)
(* session it was opened with is valid; in particular no such event is     *)
(* written to a stream whose user has no valid session left at all (every  *)
(* token logged out or expired, or the account deleted).                   *)
C30_AsClaimed ==
    [][(Written("feed:new") \/ Written("dm:new"))
         => \A c \in sseClients :
              c.id \in pushed'.to => LiveSessionOf(c.user_id)]_vars

DmWritten(c) == SelectSeq(c.written, LAMBDA e : e.type = "dm:new")

(* C31: on the polling stream of user u, dm:new is written only for         *)
(* messages received by u whose id is above the highest DM id stored when   *)
(* the stream was opened, each at most once and in ascending id order       *)
(* (the ids written are strictly increasing), and in no step does the       *)
(* lastDmId or the lastFeedId cursor of a stream decrease.                  *)
C31_WrittenDms ==
    \A i \in DOMAIN polls :
       LET c == polls[i]
           w == DmWritten(c)
       IN /\ \A k \in DOMAIN w : /\ w[k].row.receiver_id = c.user_id
                                  /\ w[k].row.id > c.startDmId
          /\ \A k \in DOMAIN w : \A l \in DOMAIN w : k < l => w[k].row.id < w[l].row.id

C31_CursorStep ==
    \A i \in DOMAIN polls :
       /\ polls'[i].lastDmId >= polls[i].lastDmId
       /\ polls'[i].lastFeedId >= polls[i].lastFeedId

C31_PollingStream == []C31_WrittenDms /\ [][C31_CursorStep]_vars

(* A stream opened after the first message has written the two later       *)
(* messages, both to its user, and has seen a new post.                    *)
C31_Witness ==
    \E i \in DOMAIN polls :
       /\ polls[i].startDmId = 1
       /\ Len(DmWritten(polls[i])) = 2
       /\ polls[i].lastDmId = 3
       /\ polls[i].lastFeedId = 2

AuthOps == {"login", "register"}
MaxOf(isAuthPath) == IF isAuthPath THEN RATE_LIMIT_MAX_AUTH ELSE RATE_LIMIT_MAX_GENERIC
AdmittedOf(a, isAuthPath) == IF isAuthPath THEN a.auth ELSE a.generic

(* C32: for each client address, within one window (from its windowStart   *)
(* until a request arrives RATE_LIMIT_WINDOW_MS or more later) at most      *)
(* RATE_LIMIT_MAX_AUTH requests to /auth/ paths and at most                 *)
(* RATE_LIMIT_MAX_GENERIC requests to other paths are let through; a        *)
(* request is refused exactly when that many of its own kind were already  *)
(* let through in the window, whatever the count of the other kind; and a  *)
(* refused request is answered 429 with the database, the streams and the  *)
(* clock left as they were.                                                *)
C32_AdmittedBounded ==
    \A ip \in DOMAIN admitted :
       /\ admitted[ip].auth <= RATE_LIMIT_MAX_AUTH
       /\ admitted[ip].generic <= RATE_LIMIT_MAX_GENERIC

C32_LimiterStep ==
    \A ip \in IPs :
       (ip \in DOMAIN rlStore' /\ (ip \notin DOMAIN rlStore \/ rlStore'[ip] # rlStore[ip]))
       => LET isAuthPath == resp'.op \in AuthOps
              sameWindow == /\ ip \in DOMAIN rlStore
                            /\ now - rlStore[ip].windowStart < RATE_LIMIT_WINDOW_MS
              before == IF sameWindow THEN AdmittedOf(admitted[ip], isAuthPath) ELSE 0
          IN /\ rlStore'[ip].windowStart
                   = (IF sameWindow THEN rlStore[ip].windowStart ELSE now)
             /\ resp'.code = 429 <=> before >= MaxOf(isAuthPath)
             /\ resp'.code = 429
                   => UNCHANGED <<store, social, sse, polls, dbOpen, now, reqs>>
             /\ \A other \in IPs \ {ip} :
                   /\ other \in DOMAIN rlStore' <=> other \in DOMAIN rlStore
                   /\ other \in DOMAIN rlStore => rlStore'[other] = rlStore[other]

C32_RateLimit == []C32_AdmittedBounded /\ [][C32_LimiterStep]_vars

(* One address was refused on an /auth/ path and then let through on       *)
(* another path in the same window, while the other address, in a window   *)
(* of its own, is let through on /auth/.                                   *)
C32_Witness ==
    /\ DOMAIN rlStore = IPs
    /\ rlStore[1].countAuth > RATE_LIMIT_MAX_AUTH
    /\ admitted[1].generic = RATE_LIMIT_MAX_GENERIC
    /\ rlStore[1].countGeneric = RATE_LIMIT_MAX_GENERIC
    /\ rlStore[2].windowStart > rlStore[1].windowStart
    /\ admitted[2].auth = 1
    /\ resp.op = "login" /\ resp.code # 429

(* The ids the friendships sequence has given out whose row is gone. *)
RemovedIds == {fid \in 1..(nextFriendshipId - 1) : RowById(friendships, fid) = {}}

(* C33: a friendship id is never reused: every row's id was given out by    *)
(* the sequence, the sequence never goes back, and once the row with id f   *)
(* is gone no row with id f appears again, whoever is invited afterwards;   *)
(* every later accept or cancel/remove with id f by an authenticated user   *)
(* ends with 404 and leaves the friendship table as it was.                 *)
C33_IdsFromSequence == \A f \in friendships : f.id < nextFriendshipId

C33_StaleIdStep ==
    /\ nextFriendshipId' >= nextFriendshipId
    /\ \A fid \in RemovedIds :
          /\ RowById(friendships', fid) = {}
          /\ \A t \in TokenInputs :
                (/\ resp'.op \in {"accept", "cancel"}
                 /\ AuthUser(t) # None
                 /\ (Accept(t, fid) \/ Cancel(t, fid)))
                => resp'.code = 404 /\ friendships' = friendships

C33_IdNeverReused == []C33_IdsFromSequence /\ [][C33_StaleIdStep]_vars

(* The first row was removed and a pair was invited again: the new row     *)
(* has id 2, and an accept or cancel/remove naming id 1 has just ended      *)
(* with 404.                                                                *)
C33_Witness ==
    /\ resp.op \in {"accept", "cancel"} /\ resp.code = 404
    /\ RemovedIds = {1}
    /\ \E f \in friendships : f.id = 2

(* ---------------------------------------------------------------------- *)
(* C34: removing a friendship deletes no direct message. A remove step    *)
(* leaves the messages table as it was, and a message leaves the table    *)
(* only in an account deletion. While the pair is not accepted GET /dm    *)
(* answers 403 with no row to both users; once the pair is accepted again *)
(* the answer holds only stored messages whose sender and receiver are    *)
(* the two users: the page asked for holds exactly the messages of the    *)
(* pair that have at least offset and fewer than offset + limit newer     *)
(* ones, so a page from offset 0 that is as long as the history holds     *)
(* every one of them, those written before the removal included.          *)
(* ---------------------------------------------------------------------- *)
Between(D, u, v) ==
    {d \in D : \/ d.sender_id = u /\ d.receiver_id = v
               \/ d.sender_id = v /\ d.receiver_id = u}

BodyIds(body) == {body[k].id : k \in 1..Len(body)}

C34_HistoryOf(u, v, limit, offset) ==
    LET history == Between(dms, u, v)
    IN IF areFriends(u, v)
       THEN /\ resp'.code = 200
            /\ BodyIds(resp'.body) \subseteq {d.id : d \in history}
            /\ \A k \in 1..Len(resp'.body) :
                 resp'.body[k].mine = (\E d \in history : d.id = resp'.body[k].id
                                                          /\ d.sender_id = u)
            /\ \A d \in history :
                 LET newer == Cardinality({e \in history : e.id > d.id})
                 IN d.id \in BodyIds(resp'.body)
                      <=> /\ clamp(offset, 0, 1000000) <= newer
                          /\ newer < clamp(offset, 0, 1000000) + clamp(limit, 1, 100)
            /\ (clamp(offset, 0, 1000000) = 0 /\ clamp(limit, 1, 100) >= Cardinality(history))
                 => BodyIds(resp'.body) = {d.id : d \in history}
       ELSE resp'.code = 403 /\ resp'.body = <<>>

C34_RemovalStep ==
    /\ resp'.op = "cancel" => dms' = dms
    /\ ~(dms \subseteq dms') => resp'.op = "account/delete" /\ resp'.code = 200
    /\ resp'.op = "dm" =>
         \A t \in DmTokenInputs, v \in DmUserInputs, l \in DmLimitInputs, o \in OffsetInputs :
            (/\ AuthUser(t) # None /\ v # None /\ v # AuthUser(t)
             /\ v \in {x.id : x \in users}
             /\ DmList(t, v, l, o))
               => C34_HistoryOf(AuthUser(t), v, l, o)

C34_RemovalKeepsMessages == [][C34_RemovalStep]_vars

(* The pair 1, 2 is friends again under a new friendship row, and the     *)
(* history just returned holds a message written under the removed row.   *)
C34_Witness ==
    /\ resp.op = "dm" /\ resp.code = 200
    /\ \E f \in friendships : /\ f.id = 3 /\ f.status = "accepted"
                              /\ f.user_a = 1 /\ f.user_b = 2
    /\ \E d \in Between(dms, 1, 2) : d.id \in BodyIds(resp.body)
    /\ \E d \in dms : d \notin Between(dms, 1, 2)

(* ---------------------------------------------------------------------- *)
(* C35: a session's expiry is absolute. A session row appears only in a   *)
(* successful login, with expires_at = the login time + SESSION_TTL_MS    *)
(* and the token handed to the caller; as long as the row exists no       *)
(* request changes it; and a request carrying a token is authenticated    *)
(* (not answered 401) exactly when a session row with that token exists   *)
(* and the current time is not after its expires_at.                      *)
(* ---------------------------------------------------------------------- *)
C35_ExpiryInReach == \A s \in sessions : s.expires_at <= now + SESSION_TTL_MS

C35_SessionStep ==
    /\ \A s \in sessions' :
         (\A r \in sessions : r.token # s.token)
            => /\ resp'.op = "login" /\ resp'.code = 200
               /\ resp'.body = <<[token |-> s.token]>>
               /\ s.expires_at = now + SESSION_TTL_MS
               /\ now' = now
    /\ \A s \in sessions, r \in sessions' : r.token = s.token => r = s
    /\ resp'.op \in {"me", "logout", "account/delete", "events"} =>
         \A t \in TokenInputs :
            (Me(t) \/ Logout(t) \/ AccountDelete(t) \/ Events(t))
               => (resp'.code # 401
                     <=> \E s \in sessions : s.token = t /\ now <= s.expires_at)

C35_AbsoluteExpiry == []C35_ExpiryInReach /\ [][C35_SessionStep]_vars

(* A request was authenticated at the very instant its session expires,   *)
(* after the clock moved since the login.                                 *)
C35_Witness ==
    /\ resp.op = "me" /\ resp.code = 200
    /\ now > 0
    /\ \E s \in sessions : s.expires_at = now /\ resp.body = <<[id |-> s.user_id]>>

(* ---------------------------------------------------------------------- *)
(* C36: accept never creates a friendship row. No step of an accept       *)
(* request adds or removes a row or changes a row's id or pair; a row     *)
(* appears only in the insert of an invite, as pending; so once the       *)
(* delete of a cancel/remove has been applied the pair has no row until   *)
(* it is invited again, whatever an accept that had read the row before   *)
(* does or reports afterwards; and an invite that checks the pair while   *)
(* it has no row is let through to its insert.                            *)
(* ---------------------------------------------------------------------- *)
Keys(F) == {<<f.id, f.user_a, f.user_b>> : f \in F}

Moved(i) == i \in DOMAIN reqs /\ reqs'[i] # reqs[i]

C36_AcceptStep ==
    /\ \A i \in DOMAIN reqs :
         (Moved(i) /\ reqs[i].op = "accept") => Keys(friendships') = Keys(friendships)
    /\ \A f \in friendships' :
         (\A g \in friendships : g.id # f.id)
            => /\ f.status = "pending"
               /\ \E i \in DOMAIN reqs :
                    /\ Moved(i) /\ reqs[i].op = "invite" /\ reqs[i].pc = "insert"
                    /\ reqs'[i].code = 201
                    /\ <<f.user_a, f.user_b>> = canonicalPair(reqs[i].u, reqs[i].other)
    /\ \A i \in DOMAIN reqs :
         (Moved(i) /\ reqs[i].op = "cancel" /\ reqs[i].pc = "delete")
            => \A f \in friendships' : f.id # reqs[i].arg
    /\ \A i \in DOMAIN reqs :
         (Moved(i) /\ reqs[i].op = "invite" /\ reqs[i].pc = "find"
          /\ \A f \in friendships :
                <<f.user_a, f.user_b>> # canonicalPair(reqs[i].u, reqs[i].other))
            => reqs'[i].pc = "insert"

C36_AcceptNeverCreates == [][C36_AcceptStep]_vars

(* An accept that read row 1 answers 200 as the latest response although  *)
(* a cancel/remove had deleted row 1 and the pair was invited again: the  *)
(* table holds the new pending row only.                                  *)
C36_Witness ==
    /\ resp = Response("accept", 200, <<>>)
    /\ \E i, j, k \in DOMAIN reqs :
         /\ reqs[i].op = "accept" /\ reqs[i].arg = 1 /\ reqs[i].pc = "done"
         /\ reqs[i].code = 200
         /\ reqs[j].op = "cancel" /\ reqs[j].arg = 1 /\ reqs[j].code = 200
         /\ reqs[k].op = "invite" /\ reqs[k].code = 201
    /\ \E f \in friendships : f.id = 2 /\ f.status = "pending"
    /\ \A f \in friendships : f.id # 1

(* ---------------------------------------------------------------------- *)
(* C37 (as claimed): user emails are unique, and every registration with  *)
(* a valid email and password ends with 201 or, when the trimmed and      *)
(* lower-cased email is already a user's, with 409, also when             *)
(* registrations for the same email are in flight together; one user per  *)
(* email is created.                                                      *)
(* ---------------------------------------------------------------------- *)
C37_UniqueEmails == \A u, v \in users : u.email = v.email => u = v

C37_AsClaimed ==
    /\ C37_UniqueEmails
    /\ \A i \in DOMAIN reqs :
         (/\ reqs[i].op = "register" /\ reqs[i].pc = "done"
          /\ isValidEmail(TrimLower(reqs[i].arg)) /\ PasswordLengthOk(reqs[i].text))
            => /\ reqs[i].code \in {201, 409}
               /\ \E u \in users : u.email = TrimLower(reqs[i].arg)

(* ---------------------------------------------------------------------- *)
(* C38 (as claimed): within one process the database is opened once.      *)
(* Each module constructs at most one Database object, all the calls of   *)
(* run / all that have run their statement ran it on the same object, as  *)
(* did all the calls of getDB, and no run has written to an object other  *)
(* than the one the module holds now.                                     *)
(* ---------------------------------------------------------------------- *)
Done(fns) == {i \in DOMAIN calls : calls[i].fn \in fns /\ calls[i].pc = "done"}

C38_GetDBOnce ==
    /\ created <= 1
    /\ \A i \in Done({"getDB"}) : calls[i].inst = 1

C38_AsClaimed ==
    /\ C38_GetDBOnce
    /\ opened <= 1
    /\ \A i, j \in Done({"run", "all"}) : calls[i].inst = calls[j].inst
    /\ \A i \in Done({"run"}) : calls[i].inst = db

(* ---------------------------------------------------------------------- *)
(* C39 (as claimed): the serverless catch-all implements the routes of    *)
(* Server.js. Every request handled by the serverless handler gets the    *)
(* status and body, and leaves the tables, that the same route of         *)
(* Server.js gives from the same store.                                   *)
(* ---------------------------------------------------------------------- *)
C39_SameStep ==
    /\ resp'.op = "me" =>
         \A t \in AsyncTokenInputs : ServerlessMe(t) => MeRoute(t)
    /\ resp'.op = "login" =>
         \A e \in 0..AsyncUsers, p \in PasswordInputs :
            ServerlessLogin(e, p) => LoginRoute(e, p)
    /\ resp'.op = "items" =>
         \A t \in AsyncTokenInputs, x \in TextInputs :
            ServerlessItemCreate(t, x) => ItemCreateRoute(t, x)
    /\ resp'.op = "invite" =>
         \A t \in AsyncTokenInputs, e \in UserIdInputs :
            ServerlessInvite(t, e) => InviteRoute(t, e)

C39_AsClaimed == [][C39_SameStep]_vars

(* The same with the sessions table left out of the comparison.           *)
C39_SameAnswer ==
    [][/\ resp'.op = "me" =>
            \A t \in AsyncTokenInputs :
               ServerlessMe(t) => resp' = Response("me", IF AuthUser(t) = None THEN 401 ELSE 200,
                                                   IF AuthUser(t) = None THEN <<>>
                                                   ELSE <<[id |-> AuthUser(t)]>>)
       /\ \A s \in sessions \ sessions' : Expired(s) \/ resp'.op = "account/delete"]_vars

====
